---- MODULE Spec2Model ----
(***************************************************************************)
(* Chat Novel (st-CHATNOVEL): a reader overlay for a host chat application. *)
(* The module models the chapterizer, the reader controller state machine, *)
(* the settings store entries the reader uses, and the per-message render  *)
(* pipeline, and states the properties of the specification against them.  *)
(***************************************************************************)
EXTENDS Integers, Sequences, FiniteSets, TLC

VARIABLES
    chIn,      \* chapterize: the messages argument
    chOpts,    \* chapterize: the options argument
    chOut,     \* chapterize: the returned chapter list
    chPc,      \* "ready" before the call, "done" after it
    \* host and settings store
    chat,          \* context.chat: the host's raw message records
    settings,      \* extensionSettings.chat_novel: the chapter settings
    bookmarks,     \* settings.bookmarks[chatId], a list of bookmark entries
    chapterNames,  \* settings.chapterNames[chatId]: chapter index -> name (<<>> = none)
    positionSaved, \* settings.readingPositions[chatId] exists
    \* reader state (the module-level state object and its DOM)
    isOpen,        \* state.isOpen
    overlay,       \* state.overlay: "null", "shown" or "closing"
    chapters,      \* state.chapters
    content,       \* the children of .cn-content
    sidebar,       \* state.sidebar: the chapter tree built by createSidebar
    frames,        \* requestAnimationFrame callbacks queued by openReader
    timers,        \* teardown timers queued by closeReader
    toast,         \* the last toastr notification
    \* history
    parsed,        \* the messages parseChatArray returned at the last open
    nameAnchor,    \* chapter index -> _index of the first message of the chapter
                   \* a custom name was given to (-1 = none)
    \* renderMessage
    rMsg,          \* the message argument
    rOptions,      \* the options argument
    rText,         \* the local variable text
    rFrames,       \* iframePlaceholders
    rCalls,        \* how many times options.regexProcessor was called
    rHookArg,      \* the text it was called with
    rPc,           \* the step renderMessage is at
    \* page mode of the reader
    readingMode,   \* settings.readingMode: "scroll" or "page"
    pageMode,      \* state.pageMode
    currentPage,   \* state.currentPage
    totalPages,    \* state.totalPages
    pending,       \* the timers, frame callbacks and listeners of page mode
    \* sidebar search
    srChapters,    \* the chapters createSidebar was given
    srQuery,       \* the trimmed value of the search input
    srResults,     \* the search results element
    srPc,          \* "typed" before the search timer runs, "done" after it
    \* parser calls
    jlContent,     \* parseJSONL: the lines of the jsonlContent argument
    jlResult,      \* parseJSONL: what the call returned or threw
    jlPc,          \* "call" before the call, "done" after it
    ndValue,       \* normalizeSendDate: the sendDate argument
    ndDate,        \* normalizeSendDate: getTime() of the Date returned
    ndPc,          \* "call" before the call, "done" after it
    \* HTML export
    exRendered,    \* options.renderedHtml of exportToHtml
    exMode,        \* options.imageMode
    exHtml,        \* the html of embedImagesAsBase64 as it stands
    exMatches,     \* its matches array
    exAt,          \* the place in matches of the next iteration (from 1)
    exFetched,     \* the outcome of the fetch of each iteration so far
    exDoc,         \* the document exportToHtml returned
    exPc,          \* "idle", "embed", "done"
    \* the line scan of renderMarkdown
    lsLines,       \* lines: the text split at the newlines
    lsAt,          \* the place in lines of the next pass (from 1)
    lsScan,        \* result, inList, listType and htmlBlockDepth as they stand
    lsPc,          \* "scan" in the loop, "done" after the open list is closed
    \* the handlers of page navigation
    navSets,       \* the sets of page-navigation listeners that are registered
    navHeld,       \* state._pageKeyHandler and its fellows hold a set
    \* reading positions of the settings store
    rpStore,       \* settings.readingPositions, in the order of Object.entries
    rpClock,       \* the last value Date.now() gave
    rpLast,        \* the chatId of the last saveReadingPosition call
    \* bookmarks of the settings store
    bmStore,       \* settings.bookmarks: the list of each chat
    bmClock,       \* the last value Date.now() gave
    bmLast         \* the last addBookmark or removeBookmark call and the store before it

chVars == <<chIn, chOpts, chOut, chPc>>
storeVars == <<settings, bookmarks, chapterNames, positionSaved>>
readerVars == <<isOpen, overlay, chapters, content, sidebar, frames, timers, toast>>
histVars == <<parsed, nameAnchor>>
renderVars == <<rMsg, rOptions, rText, rFrames, rCalls, rHookArg, rPc>>
pageVars == <<readingMode, pageMode, currentPage, totalPages, pending>>
searchVars == <<srChapters, srQuery, srResults, srPc>>
jsonlVars == <<jlContent, jlResult, jlPc>>
dateVars == <<ndValue, ndDate, ndPc>>
exportVars == <<exRendered, exMode, exHtml, exMatches, exAt, exFetched, exDoc, exPc>>
scanVars == <<lsLines, lsAt, lsScan, lsPc>>
modeVars == <<navSets, navHeld>>
posVars == <<rpStore, rpClock, rpLast>>
bmVars == <<bmStore, bmClock, bmLast>>
moreVars == <<scanVars, modeVars, posVars, bmVars>>
utilVars == <<jsonlVars, dateVars, exportVars, moreVars>>
laterVars == <<pageVars, searchVars, utilVars>>
pageOthers == <<searchVars, utilVars>>

(***************************************************************************)
(* Bounds of the model.                                                    *)
(***************************************************************************)
MaxUnwrap == 5        \* longest text of details blocks, in tokens
MaxScanLines == 4     \* most lines of a text given to the line scan
MaxStamped == 3       \* longest list of messages made from send_date values
MaxMsgs == 4          \* longest message list handed to chapterize
MaxHour == 2          \* latest timestamp, in hours after the epoch
MaxPerChapter == 3    \* largest messagesPerChapter
MaxGapHours == 2      \* largest timeGapHours
MaxChat == 3          \* longest host chat the reader is opened on
MaxSlider == 2        \* largest messagesPerChapter the reader's store holds
MaxFrames == 1        \* most animation-frame callbacks queued at once
MaxMarks == 3         \* most addBookmark and removeBookmark calls
MaxSaves == 2         \* most saveReadingPosition calls, and ticks of the clock
MaxNavSets == 3       \* most sets of page-navigation listeners registered at once
MaxCloses == 2        \* most closeReader calls before the first teardown timer runs
MaxTimers == 1        \* most teardown timers queued at once
MaxNames == 1         \* most custom chapter names stored
MaxBookmarks == 1     \* most bookmarks stored
MaxText == 4          \* longest message text, in tokens
MaxHookText == 2      \* longest message text handed to the regex processor
MaxCore == 4          \* longest text of the search corpus, without its padding
MaxRun == 51          \* longest run of matching messages in the search corpus
MaxPages == 2         \* most pages a layout calculation finds
MaxEpoch == 20        \* epoch values up to this far from 0 and from 1e12, in units of 10^8
MaxItems == 3         \* most items of an exported page
MaxLines == 4         \* most lines of a JSONL content
MaxDialogue == 5      \* longest text of a message with quoted speech, in tokens
MaxProtect == 3       \* longest content of a protected block, in tokens
MaxDoc == 3           \* longest embedded document, in tokens between its ends
MaxScripts == 2       \* longest rule list of the host

(***************************************************************************)
(* Program constants.                                                      *)
(***************************************************************************)
HourMs == 3600000     \* 60 * 60 * 1000

Modes == {"count", "time", "both", "none"}
Times == {h * HourMs : h \in 0..MaxHour}

(***************************************************************************)
(* Helpers on sequences.                                                   *)
(***************************************************************************)
RECURSIVE Flatten(_)
\* a flattening that loses the first list
FlattenRest(ss) == IF ss = <<>> THEN <<>> ELSE Flatten(Tail(ss))

Flatten(ss) == IF ss = <<>> THEN <<>> ELSE Head(ss) \o Flatten(Tail(ss))

Min(a, b) == IF a < b THEN a ELSE b

\* slice taking the end index as inclusive
sliceInclusive(s, from, to) == SubSeq(s, from + 1, Min(to + 1, Len(s)))

\* JavaScript Array.prototype.slice(from, to) with 0-based, end-exclusive indices
slice(s, from, to) == SubSeq(s, from + 1, Min(to, Len(s)))

SeqsUpTo(S, n) == UNION {[1..k -> S] : k \in 0..n}

(***************************************************************************)
(* Chapterizer (chapterizer.js).                                           *)
(* A message is [_index, t, mes]: its position in the host chat array, the *)
(* getTime() of its _parsedDate (0 for the epoch) and its text.            *)
(***************************************************************************)
DefaultTitle(i) == <<"Chapter", i + 1>>

NewChapter(msgs) ==
    [index |-> 0, title |-> <<>>, messages |-> msgs, startDate |-> 0, endDate |-> 0]

RECURSIVE ByCountLoop(_, _, _, _)
ByCountLoop(messages, count, i, chs) ==
    IF i < Len(messages)
    THEN ByCountLoop(messages, count, i + count,
                     Append(chs, NewChapter(slice(messages, i, i + count))))
    ELSE chs

chapterizeByCount(messages, count) == ByCountLoop(messages, count, 0, <<>>)

\* the distance of the two timestamps, whichever comes first
timeDiffAbs(messages, i) ==
    IF messages[i].t >= messages[i - 1].t THEN messages[i].t - messages[i - 1].t
    ELSE messages[i - 1].t - messages[i].t

\* (msg._parsedDate?.getTime() || 0) - (prevMsg._parsedDate?.getTime() || 0)
timeDiff(messages, i) == messages[i].t - messages[i - 1].t

PushMsg(ch, msg) == [ch EXCEPT !.messages = Append(@, msg)]

\* the loop's result without the final push of the chapter being filled
PushLastDropped(chs, cur) == chs

\* the final "if (currentChapter.messages.length > 0) chapters.push(currentChapter)"
PushLast(chs, cur) ==
    IF Len(cur.messages) > 0 THEN Append(chs, cur) ELSE chs

\* a gap equal to the threshold taken as a break
TimeBreakAtThreshold(messages, i, gapMs) == i > 1 /\ timeDiff(messages, i) >= gapMs

TimeBreak(messages, i, gapMs) == i > 1 /\ timeDiff(messages, i) > gapMs

RECURSIVE ByTimeLoop(_, _, _, _, _)
ByTimeLoop(messages, gapMs, i, chs, cur) ==
    IF i > Len(messages) THEN PushLast(chs, cur)
    ELSE IF TimeBreak(messages, i, gapMs) /\ Len(cur.messages) > 0
         THEN ByTimeLoop(messages, gapMs, i + 1, Append(chs, cur),
                         PushMsg(NewChapter(<<>>), messages[i]))
         ELSE ByTimeLoop(messages, gapMs, i + 1, chs, PushMsg(cur, messages[i]))

chapterizeByTime(messages, gapHours) ==
    ByTimeLoop(messages, gapHours * HourMs, 1, <<>>, NewChapter(<<>>))

\* a count that runs over the whole list instead of restarting with each chapter
CountBreakGlobal(cur, count, i) == (i - 1) % count = 0

\* const countBreak = currentChapter.messages.length >= count
CountBreak(cur, count, i) == Len(cur.messages) >= count

RECURSIVE ByBothLoop(_, _, _, _, _, _)
ByBothLoop(messages, count, gapMs, i, chs, cur) ==
    IF i > Len(messages) THEN PushLast(chs, cur)
    ELSE IF (TimeBreak(messages, i, gapMs) \/ CountBreak(cur, count, i))
            /\ Len(cur.messages) > 0
         THEN ByBothLoop(messages, count, gapMs, i + 1, Append(chs, cur),
                         PushMsg(NewChapter(<<>>), messages[i]))
         ELSE ByBothLoop(messages, count, gapMs, i + 1, chs,
                         PushMsg(cur, messages[i]))

chapterizeByBoth(messages, count, gapHours) ==
    ByBothLoop(messages, count, gapHours * HourMs, 1, <<>>, NewChapter(<<>>))

\* chapters.forEach((ch, i) => { ch.index = i; ch.title = `Chapter ${i + 1}`; ... })
AssignTitles(chs) ==
    [i \in 1..Len(chs) |->
        [index |-> i - 1,
         title |-> DefaultTitle(i - 1),
         messages |-> chs[i].messages,
         startDate |-> IF Len(chs[i].messages) > 0
                       THEN chs[i].messages[1].t ELSE chs[i].startDate,
         endDate |-> IF Len(chs[i].messages) > 0
                     THEN chs[i].messages[Len(chs[i].messages)].t
                     ELSE chs[i].endDate]]

chapterize(messages, opts) ==
    IF Len(messages) = 0 THEN <<>>
    ELSE IF opts.mode = "none"
    THEN << [index |-> 0, title |-> DefaultTitle(0), messages |-> messages,
             startDate |-> messages[1].t, endDate |-> messages[Len(messages)].t] >>
    ELSE AssignTitles(
            CASE opts.mode = "count" -> chapterizeByCount(messages, opts.messagesPerChapter)
              [] opts.mode = "time" -> chapterizeByTime(messages, opts.timeGapHours)
              [] opts.mode = "both" -> chapterizeByBoth(messages, opts.messagesPerChapter,
                                                         opts.timeGapHours)
              [] OTHER -> chapterizeByCount(messages, opts.messagesPerChapter))

(***************************************************************************)
(* Parser (parser.js).  A host record is [kind, send_date]: "text" has a   *)
(* string mes, "nonstring" has a mes (or selected swipe) that is not a     *)
(* string, "meta" is the metadata entry (no mes, a user_name).             *)
(***************************************************************************)
\* A send_date is a record with the typeof of the value: a "number" has its
\* num; a "string" has a form, "empty", "digits" (what /^\d+$/ accepts, with
\* the number num it writes, pad when blanks stand around it), "date" (a text
\* that new Date parses, to the time num), "stamp" (2025-10-17@10h16m24s, which
\* new Date does not parse, with the local time num it writes) or "other";
\* the other types have the form "none".  num is the number a number is or a
\* string writes.  The result is the getTime() of the Date returned.
SecondsLimit == 10000    \* 1e12, with epoch values counted in units of 10^8

Num(n) == [type |-> "number", form |-> "none", num |-> n, pad |-> FALSE]

normalizeSendDate(sendDate) ==
    IF \/ sendDate.type \in {"undefined", "null"}
       \/ (sendDate.type = "number" /\ sendDate.num = 0)
       \/ (sendDate.type = "string" /\ sendDate.form = "empty")
    THEN 0
    ELSE IF sendDate.type = "number" THEN sendDate.num
    ELSE IF sendDate.type = "string" /\ sendDate.form = "digits"
    THEN (IF sendDate.num < SecondsLimit THEN sendDate.num * 1000 ELSE sendDate.num)
    ELSE IF sendDate.type = "string" /\ sendDate.form \in {"date", "stamp"}
    THEN sendDate.num
    ELSE 0

RECURSIVE ParseLoop(_, _, _)
ParseLoop(chatArray, i, messages) ==
    IF i >= Len(chatArray) THEN messages
    ELSE LET item == chatArray[i + 1]
         IN IF item.kind = "meta"
            THEN ParseLoop(chatArray, i + 1, messages)
            ELSE ParseLoop(chatArray, i + 1,
                    Append(messages,
                           [_index |-> i,
                            t |-> normalizeSendDate(Num(item.send_date)),
                            mes |-> item.kind]))

parseChatArray(chatArray) == ParseLoop(chatArray, 0, <<>>)

(***************************************************************************)
(* Renderer as the reader sees it (renderer.js): renderMessage throws a    *)
(* TypeError on a message whose mes is not a string (text.replace is not a *)
(* function); renderChapter and renderAllChapters do not catch.            *)
(***************************************************************************)
renderMessageThrows(message) == message.mes = "nonstring"

renderChapterThrows(chapter) ==
    \E j \in 1..Len(chapter.messages) : renderMessageThrows(chapter.messages[j])

\* the chapter container: data-chapter, the title heading, one element per message
renderChapter(chapter) ==
    [index |-> chapter.index,
     title |-> chapter.title,
     msgs |-> [j \in 1..Len(chapter.messages) |-> chapter.messages[j]._index]]

RECURSIVE RenderAllLoop(_, _, _)
RenderAllLoop(chs, i, html) ==
    IF i > Len(chs) THEN [ok |-> TRUE, html |-> html]
    ELSE IF renderChapterThrows(chs[i]) THEN [ok |-> FALSE, html |-> html]
    ELSE RenderAllLoop(chs, i + 1, Append(html, renderChapter(chs[i])))

\* contentEl.innerHTML = ''; then one insertAdjacentHTML per chapter
renderAllChapters(chs) == RenderAllLoop(chs, 1, <<>>)

(***************************************************************************)
(* Settings store (settings.js).                                           *)
(***************************************************************************)
NoName == <<>>
Names == {<<"A">>}
Labels == {"L"}
ChapterIdx == 0..(MaxChat - 1)

RECURSIVE InsertSorted(_, _)
InsertSorted(sorted, b) ==
    IF sorted = <<>> THEN <<b>>
    ELSE IF b.msgIndex < Head(sorted).msgIndex THEN <<b>> \o sorted
    ELSE <<Head(sorted)>> \o InsertSorted(Tail(sorted), b)

RECURSIVE SortByMsgIndex(_)
SortByMsgIndex(bms) ==
    IF bms = <<>> THEN <<>>
    ELSE InsertSorted(SortByMsgIndex(SubSeq(bms, 1, Len(bms) - 1)), bms[Len(bms)])

addBookmark(bms, msgIndex, label) ==
    IF \E j \in 1..Len(bms) : bms[j].msgIndex = msgIndex
    THEN SortByMsgIndex([j \in 1..Len(bms) |->
                            IF bms[j].msgIndex = msgIndex
                            THEN [bms[j] EXCEPT !.label = label] ELSE bms[j]])
    ELSE SortByMsgIndex(Append(bms, [msgIndex |-> msgIndex, label |-> label]))

removeBookmark(bms, msgIndex) == SelectSeq(bms, LAMBDA b : b.msgIndex # msgIndex)

\* name is trimmed and not empty: settings.chapterNames[chatId][chapterIndex] = name
setChapterName(names, chapterIndex, name) == [names EXCEPT ![chapterIndex] = name]

(***************************************************************************)
(* Sidebar (sidebar.js).                                                   *)
(***************************************************************************)
HasMsg(chapter, msgIndex) ==
    \E j \in 1..Len(chapter.messages) : chapter.messages[j]._index = msgIndex

\* the chapter a bookmark is listed under: the first that holds its message,
\* the last chapter when none does
BookmarkChapter(chs, bm) ==
    IF \E ci \in 1..Len(chs) : HasMsg(chs[ci], bm.msgIndex)
    THEN CHOOSE ci \in 1..Len(chs) :
            /\ HasMsg(chs[ci], bm.msgIndex)
            /\ \A cj \in 1..(ci - 1) : ~HasMsg(chs[cj], bm.msgIndex)
    ELSE Len(chs)

getBookmarksByChapter(chs, bms) ==
    [ci \in 1..Len(chs) |-> SelectSeq(bms, LAMBDA bm : BookmarkChapter(chs, bm) = ci)]

\* const displayTitle = customNames[i] || chapter.title
DisplayTitle(chs, names, i) ==
    IF i \in ChapterIdx /\ names[i] # NoName THEN names[i] ELSE chs[i + 1].title

createSidebar(chs, bms, names) ==
    [built |-> TRUE,
     chapters |-> [ci \in 1..Len(chs) |-> renderChapter(chs[ci]).msgs],
     titles |-> [ci \in 1..Len(chs) |-> DisplayTitle(chs, names, ci - 1)],
     bm |-> getBookmarksByChapter(chs, bms)]

NoSidebar == [built |-> FALSE, chapters |-> <<>>, titles |-> <<>>, bm |-> <<>>]

(***************************************************************************)
(* Reader controller (reader.js).                                          *)
(***************************************************************************)
NoContent == [by |-> "none", html |-> <<>>]

\* for (const ch of state.chapters) if (customNames[ch.index] != null) ch.title = ...
ApplyNames(chs, names) ==
    [ci \in 1..Len(chs) |->
        IF chs[ci].index \in ChapterIdx /\ names[chs[ci].index] # NoName
        THEN [chs[ci] EXCEPT !.title = names[chs[ci].index]]
        ELSE chs[ci]]

ChapterOptions(s) ==
    [mode |-> s.chapterMode,
     messagesPerChapter |-> s.messagesPerChapter,
     timeGapHours |-> s.timeGapHours]

openReader ==
    /\ ~isOpen
    /\ frames < MaxFrames
    /\ IF Len(chat) = 0
       THEN /\ toast' = "warning"
            /\ UNCHANGED <<isOpen, overlay, chapters, content, sidebar, frames, parsed>>
       ELSE /\ parsed' = parseChatArray(chat)
            /\ chapters' = chapterize(parsed', ChapterOptions(settings))
            /\ overlay' = "shown"
            /\ content' = [by |-> "loading", html |-> <<>>]
            /\ isOpen' = TRUE
            /\ frames' = frames + 1
            /\ UNCHANGED <<sidebar, toast>>
    /\ UNCHANGED <<chat, storeVars, timers, nameAnchor>>

\* the requestAnimationFrame callback of openReader: loadContent in a try/catch
FrameCallback ==
    /\ frames > 0
    /\ frames' = frames - 1
    /\ IF overlay = "null"
       THEN UNCHANGED <<chapters, content, sidebar>>
       ELSE LET r == renderAllChapters(chapters)
                named == ApplyNames(chapters, chapterNames)
            IN IF r.ok
               THEN /\ content' = [by |-> "loadContent", html |-> r.html]
                    /\ chapters' = named
                    /\ sidebar' = createSidebar(named, bookmarks, chapterNames)
               ELSE /\ content' = [by |-> "error", html |-> <<>>]
                    /\ UNCHANGED <<chapters, sidebar>>
    /\ UNCHANGED <<chat, storeVars, isOpen, overlay, timers, toast, histVars>>

\* reRender with the settings store as the handler left it
reRender(s) ==
    LET allMessages == Flatten([ci \in 1..Len(chapters) |-> chapters[ci].messages])
        named == ApplyNames(chapterize(allMessages, ChapterOptions(s)), chapterNames)
        r == renderAllChapters(named)
    IN /\ chapters' = named
       /\ IF r.ok
          THEN /\ content' = [by |-> "reRender", html |-> r.html]
               /\ sidebar' = createSidebar(named, bookmarks, chapterNames)
          ELSE /\ content' = [by |-> "partial", html |-> r.html]
               /\ UNCHANGED sidebar

\* settings panel, select.cn-setting-input change with key chapterMode
SelectChapterMode ==
    /\ overlay # "null"
    /\ \E m \in Modes \ {settings.chapterMode} :
          /\ settings' = [settings EXCEPT !.chapterMode = m]
          /\ reRender(settings')
    /\ UNCHANGED <<chat, bookmarks, chapterNames, positionSaved, isOpen, overlay,
                   frames, timers, toast, histVars>>

\* settings panel, input[type=range] input with key messagesPerChapter
RangeMessagesPerChapter ==
    /\ overlay # "null"
    /\ settings.chapterMode \in {"count", "both"}
    /\ \E v \in (1..MaxSlider) \ {settings.messagesPerChapter} :
          settings' = [settings EXCEPT !.messagesPerChapter = v]
    /\ UNCHANGED <<chat, bookmarks, chapterNames, positionSaved, readerVars, histVars>>

\* settings panel, input[type=range] input with key timeGapHours
RangeTimeGapHours ==
    /\ overlay # "null"
    /\ settings.chapterMode \in {"time", "both"}
    /\ \E v \in (1..MaxGapHours) \ {settings.timeGapHours} :
          settings' = [settings EXCEPT !.timeGapHours = v]
    /\ UNCHANGED <<chat, bookmarks, chapterNames, positionSaved, readerVars, histVars>>

\* settings panel, checkbox change (dialogueEnabled, showImages, showSenderName)
CheckboxChange ==
    /\ overlay # "null"
    /\ reRender(settings)
    /\ UNCHANGED <<chat, storeVars, isOpen, overlay, frames, timers, toast, histVars>>

\* sidebar, inline rename of the chapter at position ci: onChapterRename
RenameChapter ==
    /\ overlay # "null"
    /\ sidebar.built
    /\ \E ci \in 1..Len(sidebar.chapters), newName \in Names :
          /\ ci - 1 \in ChapterIdx
          /\ newName # sidebar.titles[ci]
          /\ Cardinality({i \in ChapterIdx : chapterNames[i] # NoName} \cup {ci - 1})
                <= MaxNames
          /\ chapterNames' = setChapterName(chapterNames, ci - 1, newName)
          /\ nameAnchor' = [nameAnchor EXCEPT ![ci - 1] = sidebar.chapters[ci][1]]
          /\ content' = [content EXCEPT !.html =
                            [j \in 1..Len(content.html) |->
                                IF content.html[j].index = ci - 1
                                THEN [content.html[j] EXCEPT !.title = newName]
                                ELSE content.html[j]]]
          /\ chapters' = [j \in 1..Len(chapters) |->
                            IF j = ci THEN [chapters[j] EXCEPT !.title = newName]
                            ELSE chapters[j]]
          /\ sidebar' = [sidebar EXCEPT !.titles[ci] = newName]
    /\ UNCHANGED <<chat, settings, bookmarks, positionSaved, isOpen, overlay,
                   frames, timers, toast, parsed>>

\* the data-msg-index values of the message elements in the content area
Rendered(c) ==
    UNION {{c.html[j].msgs[k] : k \in 1..Len(c.html[j].msgs)} : j \in 1..Len(c.html)}

refreshSidebar(bms) ==
    IF overlay = "null" THEN UNCHANGED sidebar
    ELSE sidebar' = createSidebar(chapters, bms, chapterNames)

Bookmarked(bms) == {bms[j].msgIndex : j \in 1..Len(bms)}

\* context menu of a message that has no bookmark: addBookmark, refreshSidebar
AddBookmark ==
    /\ overlay # "null"
    /\ Len(bookmarks) < MaxBookmarks
    /\ \E msgIndex \in Rendered(content) \ Bookmarked(bookmarks), label \in Labels :
          /\ bookmarks' = addBookmark(bookmarks, msgIndex, label)
          /\ refreshSidebar(bookmarks')
    /\ UNCHANGED <<chat, settings, chapterNames, positionSaved, isOpen, overlay, chapters,
                   content, frames, timers, toast, histVars>>

\* context menu of a bookmarked message: removeBookmark, refreshSidebar
RemoveBookmarkMenu ==
    /\ overlay # "null"
    /\ \E msgIndex \in Rendered(content) \cap Bookmarked(bookmarks) :
          /\ bookmarks' = removeBookmark(bookmarks, msgIndex)
          /\ refreshSidebar(bookmarks')
    /\ UNCHANGED <<chat, settings, chapterNames, positionSaved, isOpen, overlay, chapters,
                   content, frames, timers, toast, histVars>>

\* sidebar, the remove button of a listed bookmark: onBookmarkRemove, bmItem.remove()
RemoveBookmarkSidebar ==
    /\ overlay # "null"
    /\ sidebar.built
    /\ \E ci \in 1..Len(sidebar.bm) : \E j \in 1..Len(sidebar.bm[ci]) :
          LET msgIndex == sidebar.bm[ci][j].msgIndex
          IN /\ bookmarks' = removeBookmark(bookmarks, msgIndex)
             /\ sidebar' = [sidebar EXCEPT !.bm[ci] =
                                SelectSeq(@, LAMBDA b : b.msgIndex # msgIndex)]
    /\ UNCHANGED <<chat, settings, chapterNames, positionSaved, isOpen, overlay, chapters,
                   content, frames, timers, toast, histVars>>

\* closeReader: save the reading position, start the closing animation and its timer
closeReader ==
    /\ isOpen
    /\ overlay # "null"
    /\ timers < MaxTimers
    /\ positionSaved' = TRUE
    /\ overlay' = "closing"
    /\ timers' = timers + 1
    /\ UNCHANGED <<chat, settings, bookmarks, chapterNames, isOpen, chapters, content,
                   sidebar, frames, toast, histVars>>

\* closeReader called again in the 300 ms before the teardown: state.isOpen is
\* still true and state.overlay still set, so the guard lets the call through
\* and it sets one more teardown timer
closeReaderWhileClosing ==
    /\ isOpen
    /\ overlay = "closing"
    /\ timers < MaxCloses
    /\ positionSaved' = TRUE
    /\ overlay' = "closing"
    /\ timers' = timers + 1
    /\ UNCHANGED <<chat, settings, bookmarks, chapterNames, isOpen, chapters, content,
                   sidebar, frames, toast, histVars>>

\* the overlay elements in the document: createOverlayShell appends the one it
\* stores in state.overlay, the teardown removes the one state.overlay holds
OverlaysAttached == IF overlay = "null" THEN 0 ELSE 1

\* the setTimeout(..., 300) callback of closeReader
TeardownTimer ==
    /\ timers > 0
    /\ timers' = timers - 1
    /\ overlay' = "null"
    /\ isOpen' = FALSE
    /\ chapters' = <<>>
    /\ sidebar' = NoSidebar
    /\ content' = NoContent
    /\ UNCHANGED <<chat, storeVars, frames, toast, histVars>>

(***************************************************************************)
(* Message renderer (renderer.js).  A text is a sequence of tokens; a      *)
(* token is a string that stands for itself and the text is the            *)
(* concatenation of its tokens.  Tags that the renderer emits are written  *)
(* without their attributes.                                               *)
(***************************************************************************)
NL == "\n"
BLANK == " "
FENCE == "[fence]"    \* three backticks
DOCOPEN == "<!DOCTYPE html>"
DOCCLOSE == "</html>"
QUOTE == "[quote]"    \* one double quote
HEADING == "# h"
USERMACRO == "{{user}}"
CHARMACRO == "{{char}}"
IMGMACRO == "{{img::x}}"
PREVOPEN == "<details><summary>previous info</summary>"
DETAILSOPEN == "<details>"
DETAILSCLOSE == "</details>"
CHOICESOPEN == "<choices>"
CHOICESCLOSE == "</choices>"
TICK == "[tick]"      \* one backtick

\* tokens made of word characters only (\w)
WordTokens == {"T", "User", "Char", "R"}

\* the first position >= from that holds tok, 0 when there is none
IndexFrom(text, tok, from) ==
    IF \E i \in from..Len(text) : text[i] = tok
    THEN CHOOSE i \in from..Len(text) :
            text[i] = tok /\ \A j \in from..(i - 1) : text[j] # tok
    ELSE 0

ReplaceTok(text, tok, by) == [i \in 1..Len(text) |-> IF text[i] = tok THEN by ELSE text[i]]

Count(text, tok) == Cardinality({i \in 1..Len(text) : text[i] = tok})

\* String.prototype.trim on a token text: newlines are the only white space
RECURSIVE trim(_)
trim(text) ==
    IF text = <<>> THEN text
    ELSE IF Head(text) \in {NL, BLANK} THEN trim(Tail(text))
    ELSE IF text[Len(text)] \in {NL, BLANK} THEN trim(SubSeq(text, 1, Len(text) - 1))
    ELSE text

\* escapeHtml (utils.js), token by token
escapeTok(tok) ==
    CASE tok = DOCOPEN -> "&lt;!DOCTYPE html&gt;"
      [] tok = DOCCLOSE -> "&lt;/html&gt;"
      [] tok = PREVOPEN -> "&lt;details&gt;&lt;summary&gt;previous info&lt;/summary&gt;"
      [] tok = DETAILSOPEN -> "&lt;details&gt;"
      [] tok = DETAILSCLOSE -> "&lt;/details&gt;"
      [] tok = CHOICESOPEN -> "&lt;choices&gt;"
      [] tok = CHOICESCLOSE -> "&lt;/choices&gt;"
      [] tok = "<style>" -> "&lt;style&gt;"
      [] tok = "</style>" -> "&lt;/style&gt;"
      [] tok = "<script>" -> "&lt;script&gt;"
      [] tok = "</script>" -> "&lt;/script&gt;"
      [] tok = "<svg>" -> "&lt;svg&gt;"
      [] tok = "</svg>" -> "&lt;/svg&gt;"
      [] tok = "<table>" -> "&lt;table&gt;"
      [] tok = "</table>" -> "&lt;/table&gt;"
      [] tok = QUOTE -> "&quot;"
      [] OTHER -> tok

escapeHtml(text) == [i \in 1..Len(text) |-> escapeTok(text[i])]

substituteUserMacro(text, userName) ==
    IF text = <<>> \/ userName = "" THEN text ELSE ReplaceTok(text, USERMACRO, userName)

substituteCharMacro(text, characterName) ==
    IF text = <<>> \/ characterName = "" THEN text
    ELSE ReplaceTok(text, CHARMACRO, characterName)

(***************************************************************************)
(* Regex engine.  A rule of the host is one of                             *)
(*   "rewrite"    findRegex /User/, replaceString "R"                      *)
(*   "invalid"    a findRegex that does not compile                        *)
(*   "null"       a null entry of the rule list                            *)
(*   "placement"  as "rewrite", with placement the number 2, not an array  *)
(***************************************************************************)
RuleKinds == {"rewrite", "invalid", "null", "placement"}

\* regexFromString returns null for "invalid" and applyRegexScript returns the text
applyRegexScript(script, text) ==
    IF script = "null" \/ text = <<>> THEN text
    ELSE IF script = "invalid" THEN text
    ELSE ReplaceTok(text, "User", "R")

\* part_008: the loop of applyAllRegex; script.disabled of a null entry throws
RECURSIVE RegexLoop(_, _, _)
RegexLoop(scripts, i, result) ==
    IF i > Len(scripts) THEN [threw |-> FALSE, text |-> result]
    ELSE IF scripts[i] = "null" THEN [threw |-> TRUE, text |-> result]
    ELSE RegexLoop(scripts, i + 1, applyRegexScript(scripts[i], result))

\* part_008: the whole body in try/catch, the catch returns the text it was given
applyAllRegex(text, scripts) ==
    IF text = <<>> THEN [threw |-> FALSE, text |-> text]
    ELSE LET r == RegexLoop(scripts, 1, text)
         IN IF r.threw THEN [threw |-> FALSE, text |-> text] ELSE r

\* regexEngine.js: getRegexScripts returns [] when reading a rule throws
getRegexScripts(scripts) ==
    IF \E i \in 1..Len(scripts) : scripts[i] = "null" THEN <<>> ELSE scripts

\* regexEngine.js: placement.includes of a number throws, nothing catches
RECURSIVE UncaughtLoop(_, _, _)
UncaughtLoop(scripts, i, result) ==
    IF i > Len(scripts) THEN [threw |-> FALSE, text |-> result]
    ELSE IF scripts[i] = "placement" THEN [threw |-> TRUE, text |-> result]
    ELSE UncaughtLoop(scripts, i + 1, applyRegexScript(scripts[i], result))

applyAllRegexUncaught(text, scripts) ==
    IF text = <<>> THEN [threw |-> FALSE, text |-> text]
    ELSE UncaughtLoop(getRegexScripts(scripts), 1, text)

\* processImages (imageHandler.js): {{img::name}} becomes an image container
processImages(text) ==
    IF text = <<>> THEN text ELSE ReplaceTok(text, IMGMACRO, "<div class=cn-image-container>")

\* the regexProcessor the reader passes in its render options; hook.build tells
\* which applyAllRegex ./regexEngine.js exports
regexProcessor(text, hook) ==
    LET processed == IF hook.build = "collectRegexScripts"
                     THEN applyAllRegex(text, hook.scripts)
                     ELSE applyAllRegexUncaught(text, hook.scripts)
    IN IF processed.threw THEN processed
       ELSE [threw |-> FALSE, text |-> processImages(processed.text)]

(***************************************************************************)
(* The stages of renderMessage after the hook.                             *)
(***************************************************************************)
RECURSIVE RemoveFirst(_, _, _)
RemoveFirst(text, tok, n) ==
    IF n <= 0 \/ text = <<>> THEN text
    ELSE IF Head(text) = tok THEN RemoveFirst(Tail(text), tok, n - 1)
    ELSE <<Head(text)>> \o RemoveFirst(Tail(text), tok, n)

\* the opening tags of "previous info" blocks go, then as many closing details
\* tags, from the left, as exceed the remaining opening ones
unwrapPreviousInfoBlocks(text) ==
    IF text = <<>> THEN text
    ELSE LET opened == SelectSeq(text, LAMBDA t : t # PREVOPEN)
             openCount == Count(opened, DETAILSOPEN)
             closeCount == Count(opened, DETAILSCLOSE)
         IN RemoveFirst(opened, DETAILSCLOSE, closeCount - openCount)

\* the tokens of text at the positions of S, in order
RECURSIVE Pick(_, _, _)
Pick(text, i, S) ==
    IF i > Len(text) THEN <<>>
    ELSE (IF i \in S THEN <<text[i]>> ELSE <<>>) \o Pick(text, i + 1, S)

\* <cursor> and {{cursor}} go; three or more newlines in a row become two.  The
\* texts of this model have no line that holds only a pipe (step 1 of the code).
removeCursorMarkers(text) ==
    IF text = <<>> THEN text
    ELSE LET t == SelectSeq(text, LAMBDA k : k \notin {"<cursor>", "{{cursor}}"})
         IN Pick(t, 1, {i \in 1..Len(t) :
                          ~(i > 2 /\ t[i] = NL /\ t[i - 1] = NL /\ t[i - 2] = NL)})

IframeToken(n) == "%%%CN_IFRAME_" \o ToString(n) \o "%%%"

CodeToken(n) == "%00CODEBLOCK" \o ToString(n) \o "%00"

InlineToken(n) == "%00INLINECODE" \o ToString(n) \o "%00"

HtmlToken(n) == "%00HTMLBLOCK" \o ToString(n) \o "%00"

\* the override style goes before </head>, else before <body, else in front
InjectCss(doc) ==
    LET css == "<style>html,body{overflow:hidden!important}</style>"
        h == IndexFrom(doc, "</head>", 1)
        b == IndexFrom(doc, "<body>", 1)
    IN IF h > 0 THEN SubSeq(doc, 1, h - 1) \o <<css>> \o SubSeq(doc, h, Len(doc))
       ELSE IF b > 0 THEN SubSeq(doc, 1, b - 1) \o <<css>> \o SubSeq(doc, b, Len(doc))
       ELSE <<css>> \o doc

\* & of the document becomes &amp; and a double quote &quot; in the srcdoc
\* attribute
srcdocEscape(doc) == ReplaceTok(ReplaceTok(doc, "&", "&amp;"), QUOTE, "&quot;")

iframe(doc) == <<"<iframe srcdoc=">> \o srcdocEscape(InjectCss(doc)) \o <<"></iframe>">>

\* htmlDocPattern, lazily: from a <!DOCTYPE html> or <html> to the next </html>
RECURSIVE DocLoop(_, _, _, _)
DocLoop(text, from, out, placeholders) ==
    LET opens == {i \in from..Len(text) : text[i] \in {DOCOPEN, "<html>"}
                                            /\ IndexFrom(text, DOCCLOSE, i + 1) > 0}
    IN IF opens = {}
       THEN [text |-> out \o SubSeq(text, from, Len(text)),
             iframePlaceholders |-> placeholders]
       ELSE LET i == CHOOSE o \in opens : \A p \in opens : o <= p
                j == IndexFrom(text, DOCCLOSE, i + 1)
            IN DocLoop(text, j + 1,
                       out \o SubSeq(text, from, i - 1)
                           \o <<NL, IframeToken(Len(placeholders)), NL>>,
                       Append(placeholders, iframe(SubSeq(text, i, j))))

\* a conversion that leaves every document in the text
convertNone(text) == [text |-> text, iframePlaceholders |-> <<>>]

convertHtmlDocsToIframes(text) ==
    IF text = <<>> THEN [text |-> text, iframePlaceholders |-> <<>>]
    ELSE DocLoop(text, 1, <<>>, <<>>)

\* String.prototype.split on the newline
RECURSIVE split(_)
split(text) ==
    LET n == IndexFrom(text, NL, 1)
    IN IF n = 0 THEN <<text>>
       ELSE <<SubSeq(text, 1, n - 1)>> \o split(SubSeq(text, n + 1, Len(text)))

RECURSIVE join(_)
join(lines) ==
    IF lines = <<>> THEN <<>>
    ELSE IF Len(lines) = 1 THEN lines[1]
    ELSE lines[1] \o <<NL>> \o join(Tail(lines))

\* one card per line that is not blank (the texts hold no leading numbering)
RECURSIVE ChoiceCards(_, _)
ChoiceCards(lines, i) ==
    IF i > Len(lines) THEN <<>>
    ELSE <<"<div class=cn-choice-card>", ToString(i) \o ".">> \o escapeHtml(lines[i])
            \o <<"</div>">> \o ChoiceCards(lines, i + 1)

RECURSIVE ChoicesLoop(_, _, _)
ChoicesLoop(text, from, out) ==
    LET i == IndexFrom(text, CHOICESOPEN, from)
        j == IF i = 0 THEN 0 ELSE IndexFrom(text, CHOICESCLOSE, i + 1)
    IN IF j = 0 THEN out \o SubSeq(text, from, Len(text))
       ELSE LET lines == SelectSeq(split(trim(SubSeq(text, i + 1, j - 1))),
                                   LAMBDA l : l # <<>>)
                html == IF lines = <<>> THEN SubSeq(text, i, j)
                        ELSE <<"<div class=cn-choices-container>">>
                                \o ChoiceCards(lines, 1) \o <<"</div>">>
            IN ChoicesLoop(text, j + 1, out \o SubSeq(text, from, i - 1) \o html)

processChoices(text) == IF text = <<>> THEN text ELSE ChoicesLoop(text, 1, <<>>)

(***************************************************************************)
(* renderMarkdown.                                                         *)
(***************************************************************************)
\* the first position >= from of text that holds no word token
RECURSIVE SkipWords(_, _)
SkipWords(text, from) ==
    IF from <= Len(text) /\ text[from] \in WordTokens THEN SkipWords(text, from + 1)
    ELSE from

\* the code-fence pattern, lazily: fence, word characters (the language), an
\* optional newline, the code, fence
RECURSIVE FenceLoop(_, _, _, _)
FenceLoop(text, from, out, codeBlocks) ==
    LET i == IndexFrom(text, FENCE, from)
        j == IF i = 0 THEN 0 ELSE IndexFrom(text, FENCE, i + 1)
    IN IF j = 0 THEN [text |-> out \o SubSeq(text, from, Len(text)), codeBlocks |-> codeBlocks]
       ELSE LET w == SkipWords(text, i + 1)
                c == IF text[w] = NL THEN w + 1 ELSE w
                code == SubSeq(text, c, j - 1)
            IN FenceLoop(text, j + 1,
                         out \o SubSeq(text, from, i - 1) \o <<CodeToken(Len(codeBlocks))>>,
                         Append(codeBlocks,
                                <<"<pre><code>">> \o escapeHtml(trim(code))
                                    \o <<"</code></pre>">>))

\* a fence that the fence pattern left in the text is three backticks to the
\* patterns that follow
RECURSIVE ExpandFences(_)
ExpandFences(text) ==
    IF text = <<>> THEN <<>>
    ELSE (IF Head(text) = FENCE THEN <<TICK, TICK, TICK>> ELSE <<Head(text)>>)
            \o ExpandFences(Tail(text))

\* the inline-code pattern: a backtick, one or more characters that are not a
\* backtick (newlines too), a backtick
RECURSIVE InlineLoop(_, _, _, _)
InlineLoop(text, from, out, inlineCodes) ==
    LET starts == {i \in from..(Len(text) - 2) :
                     /\ text[i] = TICK
                     /\ text[i + 1] # TICK
                     /\ IndexFrom(text, TICK, i + 1) > 0}
    IN IF starts = {}
       THEN [text |-> out \o SubSeq(text, from, Len(text)), inlineCodes |-> inlineCodes]
       ELSE LET i == CHOOSE a \in starts : \A b \in starts : a <= b
                j == IndexFrom(text, TICK, i + 1)
            IN InlineLoop(text, j + 1,
                          out \o SubSeq(text, from, i - 1) \o <<InlineToken(Len(inlineCodes))>>,
                          Append(inlineCodes,
                                 <<"<code>">> \o escapeHtml(SubSeq(text, i + 1, j - 1))
                                     \o <<"</code>">>))

\* text.replace(pattern, protectBlock) for one kind of block, lazily: from an
\* opening tag to the next closing tag of the kind
RECURSIVE ProtectLoop(_, _, _, _, _, _)
ProtectLoop(text, open, close, from, out, protectedBlocks) ==
    LET opens == {i \in from..Len(text) : text[i] = open /\ IndexFrom(text, close, i + 1) > 0}
    IN IF opens = {}
       THEN [text |-> out \o SubSeq(text, from, Len(text)), protectedBlocks |-> protectedBlocks]
       ELSE LET i == CHOOSE a \in opens : \A b \in opens : a <= b
                j == IndexFrom(text, close, i + 1)
            IN ProtectLoop(text, open, close, j + 1,
                           out \o SubSeq(text, from, i - 1) \o <<HtmlToken(Len(protectedBlocks))>>,
                           Append(protectedBlocks, SubSeq(text, i, j)))

\* the four protections in the order of the code: style, script, svg, table
protectBlocks(text) ==
    LET st == ProtectLoop(text, "<style>", "</style>", 1, <<>>, <<>>)
        sc == ProtectLoop(st.text, "<script>", "</script>", 1, <<>>, st.protectedBlocks)
        sv == ProtectLoop(sc.text, "<svg>", "</svg>", 1, <<>>, sc.protectedBlocks)
    IN ProtectLoop(sv.text, "<table>", "</table>", 1, <<>>, sv.protectedBlocks)

\* how many block-level elements a token opens, and closes
blockOpens(tok) ==
    IF tok \in {DETAILSOPEN, PREVOPEN, "<div class=cn-choices-container>",
                "<div class=cn-choice-card>", "<div class=cn-image-container>",
                "<pre><code>", "<iframe srcdoc="}
    THEN 1 ELSE 0

blockCloses(tok) ==
    IF tok \in {DETAILSCLOSE, "</div>", "</code></pre>", "></iframe>"} THEN 1 ELSE 0

RECURSIVE countBlockOpens(_)
countBlockOpens(line) ==
    IF line = <<>> THEN 0 ELSE blockOpens(Head(line)) + countBlockOpens(Tail(line))

RECURSIVE countBlockCloses(_)
countBlockCloses(line) ==
    IF line = <<>> THEN 0 ELSE blockCloses(Head(line)) + countBlockCloses(Tail(line))

\* ^<[a-zA-Z] and ^<\/[a-zA-Z] on the first token of a line
StartsWithOpenTag(line) ==
    line # <<>> /\ line[1] \in {DETAILSOPEN, PREVOPEN, CHOICESOPEN, "<html>", "<body>",
                                "<cursor>", "<div class=cn-choices-container>",
                                "<div class=cn-choice-card>",
                                "<div class=cn-image-container>", "<pre><code>",
                                "<iframe srcdoc=", "<style>html,body{overflow:hidden!important}</style>",
                                "<style>", "<script>", "<svg>", "<table>"}

StartsWithCloseTag(line) ==
    line # <<>> /\ line[1] \in {DOCCLOSE, DETAILSCLOSE, CHOICESCLOSE, "</div>", "</head>",
                                "</code></pre>", "</style>", "</script>", "</svg>",
                                "</table>"}

\* bold and italic, on tokens that hold the whole marked span
processInlineMarkdown(text) ==
    IF text = <<>> THEN <<>>
    ELSE ReplaceTok(ReplaceTok(text, "**b**", "<strong>b</strong>"), "*i*", "<em>i</em>")

\* ^%00(HTMLBLOCK|CODEBLOCK|INLINECODE)\d+%00$
IsCodeToken(tok) ==
    \E n \in 0..MaxText : tok \in {CodeToken(n), InlineToken(n), HtmlToken(n)}

\* the depth without the clamp
Unclamped(a) == a

\* if (htmlBlockDepth < 0) htmlBlockDepth = 0
Max0(a) == IF a < 0 THEN 0 ELSE a

\* the markers that open a list item, a quotation and a rule at a line's start
ULMARK == "- "
OLMARK == "1. "
BQMARK == "> "
HRULE == "---"

\* the variables of the line scan before the first line
ScanStart == [result |-> <<>>, inList |-> FALSE, listType |-> "", htmlBlockDepth |-> 0]

\* listType === 'ul' ? '</ul>' : '</ol>'
ListClose(listType) == IF listType = "ul" THEN <<"</ul>">> ELSE <<"</ol>">>

ListOpen(listType) == IF listType = "ul" THEN <<"<ul>">> ELSE <<"<ol>">>

\* ^[\-\*]\s+(.+)$ and ^\d+\.\s+(.+)$: a marker and text after it
ListKind(trimmed) ==
    IF Len(trimmed) > 1 /\ trimmed[1] = ULMARK THEN "ul"
    ELSE IF Len(trimmed) > 1 /\ trimmed[1] = OLMARK THEN "ol"
    ELSE ""

\* Close list if non-list line
CloseListIfNonList(scan, trimmed) ==
    IF scan.inList /\ ListKind(trimmed) = ""
    THEN [scan EXCEPT !.result = Append(@, ListClose(scan.listType)), !.inList = FALSE]
    ELSE scan

\* a list item: the container is opened unless one of its kind is open
ListItem(scan, kind, item) ==
    LET opened == IF ~scan.inList \/ scan.listType # kind
                  THEN [scan EXCEPT
                           !.result = (IF scan.inList THEN Append(@, ListClose(scan.listType))
                                       ELSE @) \o <<ListOpen(kind)>>,
                           !.inList = TRUE,
                           !.listType = kind]
                  ELSE scan
    IN [opened EXCEPT !.result = Append(@, <<"<li>">> \o processInlineMarkdown(item)
                                           \o <<"</li>">>)]

\* one pass of the loop over the lines
ScanLine(scan, line) ==
    LET trimmed == trim(line)
        opens == countBlockOpens(trimmed)
        closes == countBlockCloses(trimmed)
        closed == CloseListIfNonList(scan, trimmed)
        Push(out) == [closed EXCEPT !.result = Append(@, out)]
    IN IF scan.htmlBlockDepth > 0
       THEN [scan EXCEPT !.result = Append(@, line),
                         !.htmlBlockDepth = Max0(@ + opens - closes)]
       ELSE IF StartsWithOpenTag(trimmed)
       THEN IF opens > closes
            THEN [scan EXCEPT !.result = Append(@, line), !.htmlBlockDepth = opens - closes]
            ELSE [scan EXCEPT !.result = Append(@, trimmed)]
       ELSE IF StartsWithCloseTag(trimmed)
       THEN [scan EXCEPT !.result = Append(@, trimmed),
                         !.htmlBlockDepth = Max0(@ - closes)]
       ELSE IF trimmed = <<>> THEN Push(<<"<br />">>)
       ELSE IF trimmed[1] = HEADING
       THEN Push(<<"<h1>">> \o processInlineMarkdown(<<"h">> \o Tail(trimmed)) \o <<"</h1>">>)
       ELSE IF trimmed = <<HRULE>> THEN Push(<<"<hr />">>)
       ELSE IF trimmed[1] = BQMARK
       THEN Push(<<"<blockquote>">> \o processInlineMarkdown(Tail(trimmed))
                 \o <<"</blockquote>">>)
       ELSE IF ListKind(trimmed) # ""
       THEN ListItem(closed, ListKind(trimmed), trim(Tail(trimmed)))
       ELSE IF Len(trimmed) = 1 /\ IsCodeToken(trimmed[1]) THEN Push(trimmed)
       ELSE Push(<<"<p>">> \o processInlineMarkdown(trimmed) \o <<"</p>">>)

\* Close open list
CloseOpenList(scan) ==
    IF scan.inList THEN Append(scan.result, ListClose(scan.listType)) ELSE scan.result

\* the line scan: result is the list of output lines
RECURSIVE LineLoop(_, _, _)
LineLoop(lines, i, scan) ==
    IF i > Len(lines) THEN CloseOpenList(scan)
    ELSE LineLoop(lines, i + 1, ScanLine(scan, lines[i]))

\* text.replace(placeholder, block): the first occurrence only
ReplaceFirst(text, tok, by) ==
    LET i == IndexFrom(text, tok, 1)
    IN IF i = 0 THEN text ELSE SubSeq(text, 1, i - 1) \o by \o SubSeq(text, i + 1, Len(text))

RECURSIVE RestoreCodeBlocks(_, _, _)
RestoreCodeBlocks(text, codeBlocks, i) ==
    IF i > Len(codeBlocks) THEN text
    ELSE RestoreCodeBlocks(ReplaceFirst(text, CodeToken(i - 1), codeBlocks[i]), codeBlocks, i + 1)

RECURSIVE RestoreInlineCodes(_, _, _)
RestoreInlineCodes(text, inlineCodes, i) ==
    IF i > Len(inlineCodes) THEN text
    ELSE RestoreInlineCodes(ReplaceFirst(text, InlineToken(i - 1), inlineCodes[i]),
                            inlineCodes, i + 1)

RECURSIVE RestoreProtected(_, _, _)
RestoreProtected(text, protectedBlocks, i) ==
    IF i > Len(protectedBlocks) THEN text
    ELSE RestoreProtected(ReplaceFirst(text, HtmlToken(i - 1), protectedBlocks[i]),
                          protectedBlocks, i + 1)

\* a text without a backtick left after the fences keeps its fence tokens
renderMarkdown(text) ==
    IF text = <<>> THEN <<>>
    ELSE LET f == FenceLoop(text, 1, <<>>, <<>>)
             c == IF Count(f.text, TICK) = 0
                  THEN [text |-> f.text, inlineCodes |-> <<>>]
                  ELSE InlineLoop(ExpandFences(f.text), 1, <<>>, <<>>)
             p == protectBlocks(c.text)
             result == LineLoop(split(p.text), 1, ScanStart)
         IN RestoreProtected(
                RestoreInlineCodes(RestoreCodeBlocks(join(result), f.codeBlocks, 1),
                                   c.inlineCodes, 1),
                p.protectedBlocks, 1)

\* the placeholder number of a token, -1 for any other token
IframeIndex(tok) ==
    IF \E n \in 0..MaxText : tok = IframeToken(n)
    THEN CHOOSE n \in 0..MaxText : tok = IframeToken(n)
    ELSE -1

\* how far the match around the placeholder at i reaches to the left, not
\* below from: white space, a <p>, white space, a <br />, each optional
RECURSIVE BackWhile(_, _, _, _)
BackWhile(html, b, from, tok) ==
    IF b - 1 >= from /\ html[b - 1] = tok THEN BackWhile(html, b - 1, from, tok) ELSE b

BackOne(html, b, from, tok) == IF b - 1 >= from /\ html[b - 1] = tok THEN b - 1 ELSE b

MatchStart(html, i, from) ==
    BackOne(html,
            BackWhile(html, BackOne(html, BackWhile(html, i, from, NL), from, "<p>"), from, NL),
            from, "<br />")

RECURSIVE FwdWhile(_, _, _)
FwdWhile(html, e, tok) ==
    IF e + 1 <= Len(html) /\ html[e + 1] = tok THEN FwdWhile(html, e + 1, tok) ELSE e

FwdOne(html, e, tok) == IF e + 1 <= Len(html) /\ html[e + 1] = tok THEN e + 1 ELSE e

MatchEnd(html, i) ==
    FwdOne(html, FwdWhile(html, FwdOne(html, FwdWhile(html, i, NL), "</p>"), NL), "<br />")

RECURSIVE RestoreLoop(_, _, _, _)
RestoreLoop(html, from, out, iframePlaceholders) ==
    LET at == {i \in from..Len(html) : IframeIndex(html[i]) >= 0}
    IN IF at = {} THEN out \o SubSeq(html, from, Len(html))
       ELSE LET i == CHOOSE a \in at : \A b \in at : a <= b
                s == MatchStart(html, i, from)
                e == MatchEnd(html, i)
                n == IframeIndex(html[i])
                by == IF n < Len(iframePlaceholders) THEN iframePlaceholders[n + 1]
                      ELSE SubSeq(html, s, e)
            IN RestoreLoop(html, e + 1, out \o SubSeq(html, from, s - 1) \o by,
                           iframePlaceholders)

restoreIframePlaceholders(html, iframePlaceholders) ==
    IF iframePlaceholders = <<>> THEN html
    ELSE RestoreLoop(html, 1, <<>>, iframePlaceholders)

\* The styling of quoted speech reads the attributes of the tags, which the
\* tokens of the renderer leave out.  WithAttributes writes them back, as the
\* templates of the code have them: a tag with attributes becomes the tokens
\* of its text up to the first quote, the quotes, the values and the closing >.
TagWithAttributes(tok) ==
    CASE tok = "<p>" -> <<"<p class=", QUOTE, "cn-paragraph", QUOTE, ">">>
      [] tok = "<h1>" -> <<"<h1 class=", QUOTE, "cn-heading", QUOTE, ">">>
      [] tok = "<pre><code>" ->
            <<"<pre class=", QUOTE, "cn-code-block", QUOTE, ">", "<code>">>
      [] tok = "<code>" -> <<"<code class=", QUOTE, "cn-inline-code", QUOTE, ">">>
      [] tok = "<iframe srcdoc=" ->
            <<"<iframe class=", QUOTE, "cn-regex-iframe", QUOTE, " srcdoc=", QUOTE>>
      [] tok = "></iframe>" ->
            <<QUOTE, " sandbox=", QUOTE, "allow-scripts allow-same-origin", QUOTE,
              " frameborder=", QUOTE, "0", QUOTE, " scrolling=", QUOTE, "no", QUOTE,
              " style=", QUOTE, "width:100%;border:none;overflow:hidden;", QUOTE,
              ">", "</iframe>">>
      [] OTHER -> <<tok>>

RECURSIVE WithAttributes(_)
WithAttributes(html) ==
    IF html = <<>> THEN <<>>
    ELSE TagWithAttributes(Head(html)) \o WithAttributes(Tail(html))

\* the tokens whose first character is <, which [^<] does not match
OpensTag(tok) ==
    tok \in {"<p class=", "<h1 class=", "<pre class=", "<code class=", "<iframe class=",
             "</p>", "</h1>", "<code>", "</code>", "</code></pre>", "</iframe>",
             "<br />", DOCOPEN, DOCCLOSE, "<html>", "<body>", "</head>",
             "<style>html,body{overflow:hidden!important}</style>"}

\* the tokens whose last character is >, after which (?<=>) holds
ClosesTag(tok) ==
    tok \in {">", "</p>", "</h1>", "<code>", "</code>", "</code></pre>", "</iframe>",
             "<br />", DOCOPEN, DOCCLOSE, "<html>", "<body>", "</head>",
             "<style>html,body{overflow:hidden!important}</style>"}

SPANOPEN == "<span class=cn-dialogue>"
SPANCLOSE == "</span>"

\* match.replace(/"([^"]+)"/g, ...): a quote, one character or more that is no
\* quote, a quote; after a failed attempt the search goes on one place later
RECURSIVE WrapQuotes(_, _, _)
WrapQuotes(match, from, out) ==
    LET a == IndexFrom(match, QUOTE, from)
        b == IF a = 0 THEN 0 ELSE IndexFrom(match, QUOTE, a + 1)
    IN IF a = 0 \/ b = 0 THEN out \o SubSeq(match, from, Len(match))
       ELSE IF b = a + 1 THEN WrapQuotes(match, b, out \o SubSeq(match, from, a))
       ELSE WrapQuotes(match, b + 1,
                       out \o SubSeq(match, from, a - 1) \o <<SPANOPEN>>
                           \o SubSeq(match, a, b) \o <<SPANCLOSE>>)

\* the first place at or after from where a token that starts with < stands,
\* Len + 1 when there is none
NextTagStart(html, from) ==
    LET at == {i \in from..Len(html) : OpensTag(html[i])}
    IN IF at = {} THEN Len(html) + 1 ELSE CHOOSE i \in at : \A j \in at : i <= j

\* /(?<=>|^)([^<]*?"[^"]*?"[^<]*?)(?=<|$)/ at place p: p is the start of the
\* string or follows a >, a quote stands before the next <, a second quote
\* stands anywhere after it, and the match runs on to the next < or the end
DialogueMatchEnd(html, p) ==
    LET q1 == IndexFrom(html, QUOTE, p)
        q2 == IF q1 = 0 THEN 0 ELSE IndexFrom(html, QUOTE, q1 + 1)
    IN IF (p = 1 \/ ClosesTag(html[p - 1]))
          /\ q1 > 0 /\ q1 < NextTagStart(html, p) /\ q2 > 0
       THEN NextTagStart(html, q2 + 1) - 1
       ELSE 0

RECURSIVE DialogueLoop(_, _, _)
DialogueLoop(html, from, out) ==
    LET at == {p \in from..Len(html) : DialogueMatchEnd(html, p) > 0}
    IN IF at = {} THEN out \o SubSeq(html, from, Len(html))
       ELSE LET p == CHOOSE a \in at : \A b \in at : a <= b
                e == DialogueMatchEnd(html, p)
            IN DialogueLoop(html, e + 1,
                            out \o SubSeq(html, from, p - 1)
                                \o WrapQuotes(SubSeq(html, p, e), 1, <<>>))

styleDialogue(html, enabled) ==
    IF ~enabled \/ html = <<>> THEN html
    ELSE DialogueLoop(WithAttributes(html), 1, <<>>)

\* the messages of this model carry no extra
renderExtraImages(message) == CASE ~message.extra -> <<>>

(***************************************************************************)
(* renderMessage, one action per step of its body.                         *)
(***************************************************************************)
NoHook == [present |-> FALSE, build |-> "collectRegexScripts", scripts |-> <<>>]

RenderOptions(hook) ==
    [userName |-> "User", characterName |-> "Char", dialogueEnabled |-> FALSE,
     regexProcessor |-> hook]

\* let text = message.mes || ''
RenderEntry(mes, hook) ==
    /\ rMsg = [mes |-> mes, extra |-> FALSE]
    /\ rOptions = RenderOptions(hook)
    /\ rText = mes
    /\ rFrames = <<>>
    /\ rCalls = 0
    /\ rHookArg = <<>>
    /\ rPc = "macros"

RenderIdle ==
    /\ rMsg = [mes |-> <<>>, extra |-> FALSE]
    /\ rOptions = RenderOptions(NoHook)
    /\ rText = <<>>
    /\ rFrames = <<>>
    /\ rCalls = 0
    /\ rHookArg = <<>>
    /\ rPc = "idle"

\* step 1
SubstituteMacros ==
    /\ rPc = "macros"
    /\ rText' = substituteCharMacro(substituteUserMacro(rText, rOptions.userName),
                                    rOptions.characterName)
    /\ rPc' = "regex"
    /\ UNCHANGED <<rMsg, rOptions, rFrames, rCalls, rHookArg>>

\* step 2: the call is not in a try block
CallRegexProcessor ==
    /\ rPc = "regex"
    /\ IF ~rOptions.regexProcessor.present
       THEN /\ rPc' = "unwrap"
            /\ UNCHANGED <<rText, rCalls, rHookArg>>
       ELSE LET r == regexProcessor(rText, rOptions.regexProcessor)
            IN /\ rCalls' = rCalls + 1
               /\ rHookArg' = rText
               /\ IF r.threw
                  THEN rPc' = "threw" /\ UNCHANGED rText
                  ELSE rPc' = "unwrap" /\ rText' = r.text
    /\ UNCHANGED <<rMsg, rOptions, rFrames>>

\* step 3
UnwrapPreviousInfo ==
    /\ rPc = "unwrap"
    /\ rText' = unwrapPreviousInfoBlocks(rText)
    /\ rPc' = "cursor"
    /\ UNCHANGED <<rMsg, rOptions, rFrames, rCalls, rHookArg>>

\* step 3.5
RemoveCursor ==
    /\ rPc = "cursor"
    /\ rText' = removeCursorMarkers(rText)
    /\ rPc' = "docs"
    /\ UNCHANGED <<rMsg, rOptions, rFrames, rCalls, rHookArg>>

\* step 4
ConvertDocs ==
    /\ rPc = "docs"
    /\ LET d == convertHtmlDocsToIframes(rText)
       IN rText' = d.text /\ rFrames' = d.iframePlaceholders
    /\ rPc' = "choices"
    /\ UNCHANGED <<rMsg, rOptions, rCalls, rHookArg>>

\* step 5
ProcessChoices ==
    /\ rPc = "choices"
    /\ rText' = processChoices(rText)
    /\ rPc' = "markdown"
    /\ UNCHANGED <<rMsg, rOptions, rFrames, rCalls, rHookArg>>

\* step 6
RenderMarkdown ==
    /\ rPc = "markdown"
    /\ rText' = renderMarkdown(rText)
    /\ rPc' = "restore"
    /\ UNCHANGED <<rMsg, rOptions, rFrames, rCalls, rHookArg>>

\* step 7
RestoreIframes ==
    /\ rPc = "restore"
    /\ rText' = restoreIframePlaceholders(rText, rFrames)
    /\ rPc' = "dialogue"
    /\ UNCHANGED <<rMsg, rOptions, rFrames, rCalls, rHookArg>>

\* steps 8: dialogue styling, extra images, return
StyleAndReturn ==
    /\ rPc = "dialogue"
    /\ rText' = styleDialogue(rText, rOptions.dialogueEnabled) \o renderExtraImages(rMsg)
    /\ rPc' = "done"
    /\ UNCHANGED <<rMsg, rOptions, rFrames, rCalls, rHookArg>>

(***************************************************************************)
(* Page mode of the reader (part_000).  A pending callback is a record     *)
(*   kind       "enablePageMode": the 200 ms timer of loadContent          *)
(*              "doCalc": a deferred layout calculation of recalcPageLayout*)
(*              "messageHandler": the message listener of an inline frame  *)
(*   attached   the content element the callback closed over is still in   *)
(*              the document (the teardown of its reader has not run)      *)
(*   pageWidth  1 when recalcPageLayout measured a positive width, else 0  *)
(*   early      an enablePageMode timer that was set before closeReader    *)
(*              was called: it is due before the teardown timer            *)
(***************************************************************************)
NaN == 0 - 9          \* the value of 0 / 0

Callback(kind, attached, pageWidth) ==
    [kind |-> kind, attached |-> attached, pageWidth |-> pageWidth, early |-> FALSE]

\* goToPage: the page number clamped as the code clamps it
goToPage(pageNum, total) ==
    IF pageNum = NaN THEN NaN
    ELSE LET p == IF pageNum < 0 THEN 0 ELSE pageNum
         IN IF total # NaN /\ p >= total THEN total - 1 ELSE p

\* recalcPageLayout: the callbacks it queues for the content element of c
recalcPageLayout(c) == {Callback("doCalc", c.attached, IF c.attached THEN 1 ELSE 0)}

\* loadContent, with the page-mode timer and the listeners of the inline frames
PageLoadContent ==
    /\ FrameCallback
    /\ \E hasFrame \in BOOLEAN :
          pending' = IF content'.by = "loadContent"
                     THEN pending
                            \cup (IF hasFrame THEN {Callback("messageHandler", TRUE, 1)} ELSE {})
                            \cup (IF readingMode = "page"
                                  THEN {Callback("enablePageMode", TRUE, 1)} ELSE {})
                     ELSE pending
    /\ UNCHANGED <<readingMode, pageMode, currentPage, totalPages>>

\* the timer callback () => enablePageMode(contentEl); overlay.classList throws
\* when state.overlay is null, after the first two assignments
EnablePageMode ==
    \E c \in pending :
        /\ c.kind = "enablePageMode"
        /\ pageMode' = TRUE
        /\ IF overlay = "null"
           THEN /\ currentPage' = 0
                /\ pending' = pending \ {c}
           ELSE /\ currentPage' = goToPage(0, totalPages)
                /\ pending' = (pending \ {c}) \cup recalcPageLayout(c)
        /\ UNCHANGED <<readingMode, totalPages>>

\* doCalc: a detached element has scrollWidth 0
DoCalc ==
    \E c \in pending :
        /\ c.kind = "doCalc"
        /\ pending' = pending \ {c}
        /\ IF c.attached
           THEN \E n \in 1..MaxPages : totalPages' = n
           ELSE totalPages' = IF c.pageWidth = 0 THEN NaN ELSE 1
        /\ UNCHANGED <<readingMode, pageMode, currentPage>>

\* the message listener of an inline frame: a frame that left the document has
\* no contentWindow, so the source test fails
MessageHandler ==
    \E c \in pending :
        /\ c.kind = "messageHandler"
        /\ pending' = IF c.attached /\ pageMode /\ overlay # "null"
                      THEN pending \cup recalcPageLayout(c)
                      ELSE pending
        /\ pending' # pending
        /\ UNCHANGED <<readingMode, pageMode, currentPage, totalPages>>

\* state._pageKeyHandler, registered by enablePageMode and removed by closeReader
PageKey ==
    /\ pageMode
    /\ overlay = "shown"
    /\ currentPage < MaxPages
    /\ \E key \in {"ArrowRight", "ArrowLeft", "Home", "End"} :
          currentPage' =
            goToPage(CASE key = "ArrowRight" -> IF currentPage = NaN THEN NaN ELSE currentPage + 1
                       [] key = "ArrowLeft" -> IF currentPage = NaN THEN NaN ELSE currentPage - 1
                       [] key = "Home" -> 0
                       [] key = "End" -> IF totalPages = NaN THEN NaN ELSE totalPages - 1,
                     totalPages)
    /\ UNCHANGED <<readingMode, pageMode, totalPages, pending>>

\* closeReader: the page-mode timers already set are due before its teardown
PageCloseReader ==
    /\ closeReader
    /\ pending' = {IF c.kind = "enablePageMode" THEN [c EXCEPT !.early = TRUE] ELSE c :
                      c \in pending}
    /\ UNCHANGED <<readingMode, pageMode, currentPage, totalPages>>

\* the teardown timer of closeReader: the overlay leaves the document
PageTeardown ==
    /\ TeardownTimer
    /\ \A c \in pending : ~c.early
    /\ pageMode' = FALSE
    /\ currentPage' = 0
    /\ totalPages' = 0
    /\ pending' = {[c EXCEPT !.attached = FALSE] : c \in pending}
    /\ UNCHANGED readingMode

(***************************************************************************)
(* Sidebar search (part_006, performSearch).  Here a text is a sequence of *)
(* characters.                                                             *)
(***************************************************************************)
ContextRadius == 30   \* pos - 30, pos + query.length + 30
DisplayCap == 50      \* results.slice(0, 50)

toLowerCase(text) == [i \in 1..Len(text) |-> IF text[i] = "A" THEN "a" ELSE text[i]]

\* String.prototype.indexOf from position from (0-based), -1 when there is none
indexOf(text, q, from) ==
    LET at == {i \in from..(Len(text) - Len(q)) : SubSeq(text, i + 1, i + Len(q)) = q}
    IN IF at = {} THEN -1 ELSE CHOOSE i \in at : \A j \in at : i <= j

\* String.prototype.substring(start, end)
substring(text, start, end) == SubSeq(text, start + 1, end)

\* context.replace(new RegExp(escapeRegex(query), 'gi'), '<mark ...>$&</mark>')
RECURSIVE Highlight(_, _, _)
Highlight(context, lowerQuery, from) ==
    LET pos == indexOf(toLowerCase(context), lowerQuery, from)
    IN IF pos = -1 THEN substring(context, from, Len(context))
       ELSE substring(context, from, pos) \o <<"<mark>">>
                \o substring(context, pos, pos + Len(lowerQuery)) \o <<"</mark>">>
                \o Highlight(context, lowerQuery, pos + Len(lowerQuery))

\* the body of the inner forEach for one message: whether it pushes, and what
SearchMessage(chapter, chapterIdx, msgIdx, query) ==
    LET text == chapter.messages[msgIdx + 1]
        lowerQuery == toLowerCase(query)
        pos == indexOf(toLowerCase(text), lowerQuery, 0)
        start == IF pos - ContextRadius > 0 THEN pos - ContextRadius ELSE 0
        end == Min(Len(text), pos + Len(query) + ContextRadius)
        context == (IF start > 0 THEN <<".", ".", ".">> ELSE <<>>)
                       \o substring(text, start, end)
                       \o (IF end < Len(text) THEN <<".", ".", ".">> ELSE <<>>)
    IN [hit |-> pos # -1,
        entry |-> [chapterIdx |-> chapterIdx, msgIdx |-> msgIdx,
                   context |-> IF pos = -1 THEN <<>> ELSE Highlight(context, lowerQuery, 0),
                   chapter |-> chapter.title]]

\* chapter.messages.forEach: the entries it pushes, in order
SearchChapter(chapter, chapterIdx, query) ==
    LET found == SelectSeq([m \in 1..Len(chapter.messages) |->
                               SearchMessage(chapter, chapterIdx, m - 1, query)],
                           LAMBDA r : r.hit)
    IN [k \in 1..Len(found) |-> found[k].entry]

\* chapters.forEach
RECURSIVE SearchLoop(_, _, _)
SearchLoop(chs, chapterIdx, query) ==
    IF chapterIdx >= Len(chs) THEN <<>>
    ELSE SearchChapter(chs[chapterIdx + 1], chapterIdx, query)
            \o SearchLoop(chs, chapterIdx + 1, query)

\* the count line shows results.length
reportedCountShown(results) == Len(slice(results, 0, DisplayCap))

reportedCount(results) == Len(results)

\* what performSearch leaves in the results element
performSearch(chs, query) ==
    IF Len(query) < 2
    THEN [display |-> "none", banner |-> "none", count |-> 0, items |-> <<>>]
    ELSE LET results == SearchLoop(chs, 0, query)
         IN IF Len(results) = 0
            THEN [display |-> "block", banner |-> "noResults", count |-> 0, items |-> <<>>]
            ELSE [display |-> "block", banner |-> "count",
                  count |-> reportedCount(results),
                  items |-> slice(results, 0, DisplayCap)]

SearchIdle ==
    /\ srChapters = <<>>
    /\ srQuery = <<>>
    /\ srResults = [display |-> "none", banner |-> "none", count |-> 0, items |-> <<>>]
    /\ srPc = "idle"

\* the 300 ms timer of the input listener runs performSearch
PerformSearch ==
    /\ srPc = "typed"
    /\ srResults' = performSearch(srChapters, srQuery)
    /\ srPc' = "done"
    /\ UNCHANGED <<srChapters, srQuery>>

(***************************************************************************)
(* parseJSONL (parser.js).  The content is its lines; a line is a record   *)
(*   kind   "blank": nothing but white space                               *)
(*          "malformed": JSON.parse throws on it                           *)
(*          "null": the JSON text null, on which msg._index = i throws     *)
(*          "object": a JSON object                                        *)
(*   mes, send_date, swipes (<<>> when the record has none), swipe_id      *)
(***************************************************************************)
JsonlLine(kind) ==
    [kind |-> kind, mes |-> "", send_date |-> Num(0), swipes |-> <<>>, swipe_id |-> 0]

\* msg.swipes[msg.swipe_id], when it is there, takes the place of msg.mes
SelectedSwipe(msg) ==
    IF msg.swipes # <<>> /\ msg.swipe_id + 1 \in 1..Len(msg.swipes)
    THEN msg.swipes[msg.swipe_id + 1]
    ELSE msg.mes

\* the for loop over lines[1..]; i is the index of the code, from 0
RECURSIVE JsonlLoop(_, _, _)
JsonlLoop(lines, i, messages) ==
    IF i >= Len(lines) THEN messages
    ELSE LET msg == lines[i + 1]
         IN IF msg.kind = "object"
            THEN JsonlLoop(lines, i + 1,
                    Append(messages,
                           [_index |-> i,
                            _parsedDate |-> normalizeSendDate(msg.send_date),
                            mes |-> SelectedSwipe(msg)]))
            ELSE JsonlLoop(lines, i + 1, messages)

parseJSONL(jsonlContent) ==
    LET lines == SelectSeq(jsonlContent, LAMBDA line : line.kind # "blank")
    IN IF Len(lines) = 0
       THEN [threw |-> TRUE, error |-> "Empty JSONL content", messages |-> <<>>]
       ELSE IF lines[1].kind = "malformed"
       THEN [threw |-> TRUE, error |-> "Failed to parse metadata line", messages |-> <<>>]
       ELSE [threw |-> FALSE, error |-> "", messages |-> JsonlLoop(lines, 1, <<>>)]

ParseJSONL ==
    /\ jlPc = "call"
    /\ jlResult' = parseJSONL(jlContent)
    /\ jlPc' = "done"
    /\ UNCHANGED jlContent

\* one call of normalizeSendDate
NormalizeSendDate ==
    /\ ndPc = "call"
    /\ ndDate' = normalizeSendDate(ndValue)
    /\ ndPc' = "done"
    /\ UNCHANGED ndValue

(***************************************************************************)
(* HTML export (exporter.js, imageHandler.js).  The rendered HTML is a     *)
(* sequence of items, [tag, src, alt]: an "img" tag with its src and alt,  *)
(* or a "text" between tags.  Two img items are equal when the texts of    *)
(* the two tags are.  The URLs of this model stand nowhere in a tag but in *)
(* its src.  A fetch ends in one of                                        *)
(*   "ok"       the image is read into a data URI                          *)
(*   "status"   the response is not ok                                     *)
(*   "network"  fetch rejects                                              *)
(*   "reader"   the FileReader fails and the promise returned rejects      *)
(***************************************************************************)
TextItem == [tag |-> "text", src |-> "", alt |-> ""]

Img(src, alt) == [tag |-> "img", src |-> src, alt |-> alt]

Urls == {"a.png", "b.png"}

DataUri(url) == "data:" \o url

EmbeddedUri == "data:image/png;base64,AAAA"

\* originalSrc.startsWith('data:')
StartsWithData(src) == src \in {EmbeddedUri} \cup {DataUri(u) : u \in Urls}

FetchOutcomes == {"ok", "status", "network", "reader"}

\* imageToBase64: the catch returns the url; a rejection of the promise it
\* returns is outside its try
imageToBase64(url, outcome) ==
    IF outcome = "ok" THEN [threw |-> FALSE, value |-> DataUri(url)]
    ELSE IF outcome \in {"status", "network"} THEN [threw |-> FALSE, value |-> url]
    ELSE [threw |-> TRUE, value |-> ""]

\* [...html.matchAll(imgRegex)]
ImageMatches(html) == SelectSeq(html, LAMBDA item : item.tag = "img" /\ item.src # "")

\* html.replace(match[0], by): the first occurrence
ReplaceFirstItem(html, item, by) ==
    LET at == {i \in 1..Len(html) : html[i] = item}
    IN IF at = {} THEN html
       ELSE [html EXCEPT ![CHOOSE i \in at : \A j \in at : i <= j] = by]

Document(processedHtml) == [complete |-> TRUE, content |-> processedHtml]

NoDocument == [complete |-> FALSE, content |-> <<>>]

\* exportToHtml up to its first await, or to its end when imageMode is 'url'
ExportToHtml ==
    /\ exPc = "call"
    /\ IF exMode = "base64"
       THEN /\ exHtml' = exRendered
            /\ exMatches' = ImageMatches(exRendered)
            /\ exPc' = "embed"
            /\ UNCHANGED exDoc
       ELSE /\ exDoc' = Document(exRendered)
            /\ exPc' = "done"
            /\ UNCHANGED <<exHtml, exMatches>>
    /\ UNCHANGED <<exRendered, exMode, exAt, exFetched>>

\* one iteration of the for loop of embedImagesAsBase64
EmbedImage ==
    /\ exPc = "embed"
    /\ exAt <= Len(exMatches)
    /\ LET match == exMatches[exAt]
       IN IF StartsWithData(match.src)
          THEN /\ exFetched' = Append(exFetched, "none")
               /\ UNCHANGED exHtml
          ELSE \E outcome \in FetchOutcomes :
                  LET base64 == imageToBase64(match.src, outcome)
                  IN /\ exFetched' = Append(exFetched, outcome)
                     /\ IF base64.threw THEN UNCHANGED exHtml
                        ELSE exHtml' = ReplaceFirstItem(exHtml, match,
                                                        [match EXCEPT !.src = base64.value])
    /\ exAt' = exAt + 1
    /\ UNCHANGED <<exRendered, exMode, exMatches, exDoc, exPc>>

\* the loop is over: embedImagesAsBase64 returns and exportToHtml builds the page
ExportReturn ==
    /\ exPc = "embed"
    /\ exAt > Len(exMatches)
    /\ exDoc' = Document(exHtml)
    /\ exPc' = "done"
    /\ UNCHANGED <<exRendered, exMode, exHtml, exMatches, exAt, exFetched>>

(***************************************************************************)
(* Reading mode (part_000): the handlers of page navigation, the footer    *)
(* button and the select of the settings panel.                            *)
(***************************************************************************)
\* setupPageNavigation: a new set of listeners is registered and the state
\* fields hold it, whatever they held before
setupPageNavigation == [sets |-> navSets + 1, held |-> TRUE]

\* cleanupPageNavigation: the set the state fields hold is removed
cleanupPageNavigation == [sets |-> IF navHeld THEN navSets - 1 ELSE navSets, held |-> FALSE]

\* the 200 ms timer of loadContent: enablePageMode with its listeners
ModeTimer ==
    /\ EnablePageMode
    /\ IF overlay = "null"
       THEN UNCHANGED <<navSets, navHeld>>
       ELSE navSets' = setupPageNavigation.sets /\ navHeld' = setupPageNavigation.held

\* the click listener of the footer mode button and the change listener of the
\* readingMode select: updateSetting, then enablePageMode or disablePageMode
ModeInput ==
    /\ isOpen
    /\ overlay = "shown"
    /\ navSets < MaxNavSets
    /\ \E source \in {"button", "select"} :
          LET newMode == IF readingMode = "scroll" THEN "page" ELSE "scroll"
          IN /\ readingMode' = newMode
             /\ IF newMode = "page"
                THEN /\ pageMode' = TRUE
                     /\ currentPage' = goToPage(0, totalPages)
                     /\ pending' = pending \cup recalcPageLayout(Callback(source, TRUE, 1))
                     /\ navSets' = setupPageNavigation.sets
                     /\ navHeld' = setupPageNavigation.held
                     /\ UNCHANGED totalPages
                ELSE /\ pageMode' = FALSE
                     /\ navSets' = cleanupPageNavigation.sets
                     /\ navHeld' = cleanupPageNavigation.held
                     /\ UNCHANGED <<currentPage, totalPages, pending>>

(***************************************************************************)
(* Reading positions (settings.js).  The store is the list of its entries  *)
(* in the order of Object.entries, the order in which the keys were set; a *)
(* chat id is a number, 0 for the empty string; an entry holds its chat id *)
(* and its timestamp, Undefined when it has none.                          *)
(***************************************************************************)
MAX_READING_POSITIONS == 100

Undefined == 0 - 1
NoCall == 0 - 2

\* a[1].timestamp || 0
Stamp(entry) == IF entry.timestamp = Undefined THEN 0 ELSE entry.timestamp

\* the place of entry i after entries.sort by timestamp, from 0; the sort is stable
SortedPlace(entries, i) ==
    Cardinality({j \in 1..Len(entries) :
                    \/ Stamp(entries[j]) < Stamp(entries[i])
                    \/ (Stamp(entries[j]) = Stamp(entries[i]) /\ j < i)})

\* the store with the key set: an old key keeps its place, a new one goes last
SetPosition(store, chatId, now) ==
    LET entry == [chatId |-> chatId, timestamp |-> now]
    IN IF \E i \in 1..Len(store) : store[i].chatId = chatId
       THEN [i \in 1..Len(store) |-> IF store[i].chatId = chatId THEN entry ELSE store[i]]
       ELSE Append(store, entry)

\* a save without the cleanup
saveUncapped(store, chatId, now) ==
    IF chatId = 0 THEN store ELSE SetPosition(store, chatId, now)

saveReadingPosition(store, chatId, now) ==
    IF chatId = 0 THEN store
    ELSE LET entries == SetPosition(store, chatId, now)
             excess == Len(entries) - MAX_READING_POSITIONS
             kept == {i \in 1..Len(entries) : SortedPlace(entries, i) >= excess}
         IN IF excess > 0
            THEN SelectSeq([i \in 1..Len(entries) |->
                               IF i \in kept THEN entries[i]
                               ELSE [chatId |-> 0, timestamp |-> Undefined]],
                           LAMBDA en : en.chatId # 0)
            ELSE entries

\* Date.now() when the first call is made, above every timestamp of the store
ClockStart == 200

\* the first chat id that the store has never held
FirstNewChat == 1000

\* one call: Date.now() does not run backwards
SaveReadingPosition ==
    /\ rpClock < ClockStart + MaxSaves
    /\ \E chatId \in {0, 1, 2, FirstNewChat + (rpClock - ClockStart)},
          now \in {rpClock, rpClock + 1} :
          /\ now > ClockStart
          /\ rpStore' = saveReadingPosition(rpStore, chatId, now)
          /\ rpClock' = now
          /\ rpLast' = chatId

(***************************************************************************)
(* Bookmarks of the settings store (settings.js), chat by chat.  A chat id *)
(* is a number, 0 for the empty string; the list of a chat that has none   *)
(* is empty; a bookmark holds msgIndex, label and timestamp.               *)
(***************************************************************************)
\* an addBookmark that pushes without looking for the message
pushBookmark(store, chatId, msgIndex, label, now) ==
    IF chatId = 0 THEN store
    ELSE [store EXCEPT ![chatId] =
             SortByMsgIndex(Append(@, [msgIndex |-> msgIndex, label |-> label,
                                       timestamp |-> now]))]

\* addBookmark on the store
storeBookmark(store, chatId, msgIndex, label, now) ==
    IF chatId = 0 THEN store
    ELSE LET bms == store[chatId]
         IN [store EXCEPT ![chatId] =
                IF \E j \in 1..Len(bms) : bms[j].msgIndex = msgIndex
                THEN SortByMsgIndex([j \in 1..Len(bms) |->
                                        IF bms[j].msgIndex = msgIndex
                                        THEN [bms[j] EXCEPT !.label = label,
                                                            !.timestamp = now]
                                        ELSE bms[j]])
                ELSE SortByMsgIndex(Append(bms, [msgIndex |-> msgIndex, label |-> label,
                                                 timestamp |-> now]))]

\* removeBookmark on the store
dropBookmark(store, chatId, msgIndex) ==
    IF chatId = 0 THEN store
    ELSE [store EXCEPT ![chatId] = removeBookmark(@, msgIndex)]

MarkChats == {0, 1, 2}
MarkIndexes == {0, 1}

StoreAddBookmark ==
    /\ bmClock < MaxMarks
    /\ \E chatId \in MarkChats, msgIndex \in MarkIndexes, label \in {"x", "y"} :
          /\ bmStore' = storeBookmark(bmStore, chatId, msgIndex, label, bmClock + 1)
          /\ bmLast' = <<"add", chatId, msgIndex, label>>
    /\ bmClock' = bmClock + 1

StoreRemoveBookmark ==
    /\ bmClock < MaxMarks
    /\ \E chatId \in MarkChats, msgIndex \in MarkIndexes :
          /\ bmStore' = dropBookmark(bmStore, chatId, msgIndex)
          /\ bmLast' = <<"remove", chatId, msgIndex, "">>
    /\ bmClock' = bmClock + 1

(***************************************************************************)
(* Initial states.                                                         *)
(***************************************************************************)
\* the records of a host chat: messages at the first or the last timestamp (a
\* record whose text is not a string is taken at the first), and the metadata
\* header that a chat file starts with
HostItems(kinds) ==
    {[kind |-> "text", send_date |-> t] : t \in {0, MaxHour * HourMs}}
        \cup {[kind |-> k, send_date |-> 0] : k \in kinds \ {"text"}}

HostHeader == [kind |-> "meta", send_date |-> 0]

HostChats(kinds) ==
    SeqsUpTo(HostItems(kinds), MaxChat)
        \cup {<<HostHeader>> \o s : s \in SeqsUpTo(HostItems(kinds), MaxChat - 1)}

StoredSettings ==
    [chapterMode : Modes, messagesPerChapter : 1..MaxSlider, timeGapHours : 1..MaxGapHours]

\* the state object as the module creates it, and an empty store for the chat
ReaderInit ==
    /\ isOpen = FALSE
    /\ overlay = "null"
    /\ chapters = <<>>
    /\ content = NoContent
    /\ sidebar = NoSidebar
    /\ frames = 0
    /\ timers = 0
    /\ toast = "none"
    /\ bookmarks = <<>>
    /\ chapterNames = [i \in ChapterIdx |-> NoName]
    /\ positionSaved = FALSE
    /\ parsed = <<>>
    /\ nameAnchor = [i \in ChapterIdx |-> -1]

ChIdle ==
    /\ chIn = <<>>
    /\ chOpts = [mode |-> "count", messagesPerChapter |-> 1, timeGapHours |-> 1]
    /\ chOut = <<>>
    /\ chPc = "idle"

ReaderIdle ==
    /\ ReaderInit
    /\ chat = <<>>
    /\ settings = [chapterMode |-> "count", messagesPerChapter |-> 1, timeGapHours |-> 1]

PageIdle ==
    /\ readingMode = "scroll"
    /\ pageMode = FALSE
    /\ currentPage = 0
    /\ totalPages = 0
    /\ pending = {}

JsonlIdle ==
    /\ jlContent = <<>>
    /\ jlResult = [threw |-> FALSE, error |-> "", messages |-> <<>>]
    /\ jlPc = "idle"

DateIdle ==
    /\ ndValue = Num(0)
    /\ ndDate = 0
    /\ ndPc = "idle"

ExportIdle ==
    /\ exRendered = <<>>
    /\ exMode = "url"
    /\ exHtml = <<>>
    /\ exMatches = <<>>
    /\ exAt = 1
    /\ exFetched = <<>>
    /\ exDoc = [complete |-> FALSE, content |-> <<>>]
    /\ exPc = "idle"

ScanIdle ==
    /\ lsLines = <<>>
    /\ lsAt = 1
    /\ lsScan = ScanStart
    /\ lsPc = "done"

ModeIdle ==
    /\ navSets = 0
    /\ navHeld = FALSE

PosIdle ==
    /\ rpStore = <<>>
    /\ rpClock = 0
    /\ rpLast = NoCall

BmIdle ==
    /\ bmStore = <<>>
    /\ bmClock = 0
    /\ bmLast = <<>>

MoreIdle == ScanIdle /\ ModeIdle /\ PosIdle /\ BmIdle

UtilIdle == JsonlIdle /\ DateIdle /\ ExportIdle /\ MoreIdle

LaterIdle == PageIdle /\ SearchIdle /\ UtilIdle

allReaderVars == <<chat, storeVars, readerVars, histVars>>
vars == <<chVars, allReaderVars, renderVars, laterVars>>

(***************************************************************************)
(* Specification of one chapterize call on bounded inputs.                 *)
(***************************************************************************)
MsgAt(i, t) == [_index |-> i, t |-> t, mes |-> "text"]

ChInputs ==
    {[i \in 1..Len(ts) |-> MsgAt(i - 1, ts[i])] : ts \in SeqsUpTo(Times, MaxMsgs)}

ChOptions ==
    [mode : Modes, messagesPerChapter : 1..MaxPerChapter, timeGapHours : 1..MaxGapHours]

ChInit ==
    /\ chIn \in ChInputs
    /\ chOpts \in ChOptions
    /\ chOut = <<>>
    /\ chPc = "ready"
    /\ ReaderIdle
    /\ RenderIdle
    /\ LaterIdle

CallChapterize ==
    /\ chPc = "ready"
    /\ chOut' = chapterize(chIn, chOpts)
    /\ chPc' = "done"
    /\ UNCHANGED <<chIn, chOpts, allReaderVars, renderVars, laterVars>>

SpecChapterize == ChInit /\ [][CallChapterize]_vars

(***************************************************************************)
(* Specification of the reader on a chat that may hold records the         *)
(* renderer fails on.                                                      *)
(***************************************************************************)
Init ==
    /\ ChIdle
    /\ RenderIdle
    /\ LaterIdle
    /\ ReaderInit
    /\ chat \in HostChats({"nonstring"})
    /\ settings \in StoredSettings

Next ==
    \/ (openReader /\ UNCHANGED <<chVars, renderVars, laterVars>>)
    \/ (FrameCallback /\ UNCHANGED <<chVars, renderVars, laterVars>>)
    \/ (SelectChapterMode /\ UNCHANGED <<chVars, renderVars, laterVars>>)
    \/ (RangeMessagesPerChapter /\ UNCHANGED <<chVars, renderVars, laterVars>>)
    \/ (RangeTimeGapHours /\ UNCHANGED <<chVars, renderVars, laterVars>>)
    \/ (CheckboxChange /\ UNCHANGED <<chVars, renderVars, laterVars>>)
    \/ (closeReader /\ UNCHANGED <<chVars, renderVars, laterVars>>)
    \/ (TeardownTimer /\ UNCHANGED <<chVars, renderVars, laterVars>>)

Spec == Init /\ [][Next]_vars

(***************************************************************************)
(* Specification of the reader with its sidebar, bookmarks and custom      *)
(* chapter names, on a chat every record of which renders.                 *)
(***************************************************************************)
SidebarInit ==
    /\ ChIdle
    /\ RenderIdle
    /\ LaterIdle
    /\ ReaderInit
    /\ chat \in HostChats({})
    /\ settings \in StoredSettings

SidebarNext ==
    \/ Next
    \/ (RenameChapter /\ UNCHANGED <<chVars, renderVars, laterVars>>)
    \/ (AddBookmark /\ UNCHANGED <<chVars, renderVars, laterVars>>)
    \/ (RemoveBookmarkMenu /\ UNCHANGED <<chVars, renderVars, laterVars>>)
    \/ (RemoveBookmarkSidebar /\ UNCHANGED <<chVars, renderVars, laterVars>>)

SpecSidebar == SidebarInit /\ [][SidebarNext]_vars

(***************************************************************************)
(* Specification of renderMessage on texts with code fences, embedded      *)
(* documents and headings, without a regex processor.                      *)
(***************************************************************************)
FenceTexts == SeqsUpTo({"T", NL, FENCE, DOCOPEN, DOCCLOSE, HEADING}, MaxText)

RenderInit ==
    /\ ChIdle
    /\ ReaderIdle
    /\ \E mes \in FenceTexts : RenderEntry(mes, NoHook)
    /\ LaterIdle

RenderNext ==
    \/ (SubstituteMacros /\ UNCHANGED <<chVars, allReaderVars, laterVars>>)
    \/ (CallRegexProcessor /\ UNCHANGED <<chVars, allReaderVars, laterVars>>)
    \/ (UnwrapPreviousInfo /\ UNCHANGED <<chVars, allReaderVars, laterVars>>)
    \/ (RemoveCursor /\ UNCHANGED <<chVars, allReaderVars, laterVars>>)
    \/ (ConvertDocs /\ UNCHANGED <<chVars, allReaderVars, laterVars>>)
    \/ (ProcessChoices /\ UNCHANGED <<chVars, allReaderVars, laterVars>>)
    \/ (RenderMarkdown /\ UNCHANGED <<chVars, allReaderVars, laterVars>>)
    \/ (RestoreIframes /\ UNCHANGED <<chVars, allReaderVars, laterVars>>)
    \/ (StyleAndReturn /\ UNCHANGED <<chVars, allReaderVars, laterVars>>)

SpecRender == RenderInit /\ [][RenderNext]_vars

(***************************************************************************)
(* Specification of renderMessage with the reader's regex processor over   *)
(* the rule lists of the host.                                             *)
(***************************************************************************)
HookTexts == SeqsUpTo({USERMACRO, "T", IMGMACRO}, MaxHookText)

Hooks ==
    {NoHook} \cup
    {[present |-> TRUE, build |-> b, scripts |-> s] :
        b \in {"collectRegexScripts", "getRegexScripts"}, s \in SeqsUpTo(RuleKinds, MaxScripts)}

HookInit ==
    /\ ChIdle
    /\ ReaderIdle
    /\ \E mes \in HookTexts, hook \in Hooks : RenderEntry(mes, hook)
    /\ LaterIdle

SpecHook == HookInit /\ [][RenderNext]_vars

(***************************************************************************)
(* Specification of renderMessage on texts that hold one embedded          *)
(* document, after an optional line of text, without a regex processor.    *)
(* The document holds code fences, heading marks, blank lines and macros.  *)
(***************************************************************************)
DocInner == SeqsUpTo({"T", NL, FENCE, HEADING, USERMACRO}, MaxDoc)

DocTexts ==
    {pre \o <<DOCOPEN>> \o inner \o <<DOCCLOSE>> :
        pre \in {<<>>, <<"T", NL>>}, inner \in DocInner}

DocInit ==
    /\ ChIdle
    /\ ReaderIdle
    /\ \E mes \in DocTexts : RenderEntry(mes, NoHook)
    /\ LaterIdle

SpecDoc == DocInit /\ [][RenderNext]_vars

(***************************************************************************)
(* Specification of renderMessage on texts that hold one style, script,    *)
(* svg or table block, between optional text, without a regex processor.   *)
(* The block holds backticks, code fences, bold marks, newlines and style  *)
(* tags.  A backtick token stands next to no other backtick or fence.      *)
(***************************************************************************)
Spaced(text) ==
    \A i \in 1..(Len(text) - 1) :
        ~(TICK \in {text[i], text[i + 1]} /\ {text[i], text[i + 1]} \subseteq {TICK, FENCE})

BlockKinds == {"style", "script", "svg", "table"}

OpenTag(kind) == "<" \o kind \o ">"

CloseTag(kind) == "</" \o kind \o ">"

ProtectInner ==
    {t \in SeqsUpTo({"T", NL, TICK, FENCE, "**b**", "<style>", "</style>"}, MaxProtect) :
        Spaced(t)}

ProtectTexts ==
    {pre \o <<OpenTag(k)>> \o inner \o <<CloseTag(k)>> \o post :
        k \in BlockKinds, inner \in ProtectInner,
        pre \in {<<>>, <<"T">>}, post \in {<<>>, <<NL, "T">>}}

ProtectInit ==
    /\ ChIdle
    /\ ReaderIdle
    /\ \E mes \in ProtectTexts : RenderEntry(mes, NoHook)
    /\ LaterIdle

SpecProtect == ProtectInit /\ [][RenderNext]_vars

(***************************************************************************)
(* Specification of the reader with page mode: open, load, close and       *)
(* teardown, with the timers, layout calculations, frame messages and keys *)
(* of page mode in any order.                                              *)
(***************************************************************************)
PageInit ==
    /\ ChIdle
    /\ RenderIdle
    /\ UtilIdle
    /\ ReaderInit
    /\ chat = <<[kind |-> "text", send_date |-> 0]>>
    /\ settings = [chapterMode |-> "count", messagesPerChapter |-> 1, timeGapHours |-> 1]
    /\ readingMode \in {"scroll", "page"}
    /\ pageMode = FALSE
    /\ currentPage = 0
    /\ totalPages = 0
    /\ pending = {}
    /\ SearchIdle

PageNext ==
    \/ (openReader /\ UNCHANGED <<chVars, renderVars, pageOthers, pageVars>>)
    \/ (PageLoadContent /\ UNCHANGED <<chVars, renderVars, pageOthers>>)
    \/ (EnablePageMode /\ UNCHANGED <<chVars, renderVars, pageOthers, allReaderVars>>)
    \/ (DoCalc /\ UNCHANGED <<chVars, renderVars, pageOthers, allReaderVars>>)
    \/ (MessageHandler /\ UNCHANGED <<chVars, renderVars, pageOthers, allReaderVars>>)
    \/ (PageKey /\ UNCHANGED <<chVars, renderVars, pageOthers, allReaderVars>>)
    \/ (PageCloseReader /\ UNCHANGED <<chVars, renderVars, pageOthers>>)
    \/ (PageTeardown /\ UNCHANGED <<chVars, renderVars, pageOthers>>)

SpecPage == PageInit /\ [][PageNext]_vars

(***************************************************************************)
(* Specification of one search on a bounded corpus: short texts with and   *)
(* without long padding around them, and long runs of one matching text.   *)
(***************************************************************************)
RECURSIVE Repeat(_, _)
Repeat(x, n) == IF n <= 0 THEN <<>> ELSE <<x>> \o Repeat(x, n - 1)

SearchCores == SeqsUpTo({"a", "A", "b"}, MaxCore)

SearchTexts ==
    {Repeat("x", l) \o core \o Repeat("x", r) :
        core \in SearchCores, l \in {0, ContextRadius + 1}, r \in {0, ContextRadius + 1}}

CorpusChapter(title, messages) == [title |-> title, messages |-> messages]

SearchCorpora ==
    {<<CorpusChapter("1", <<t>>)>> : t \in SearchTexts}
        \cup {<<CorpusChapter("1", <<t>>), CorpusChapter("2", <<u>>)>> :
                t \in SearchCores, u \in {<<"a", "b">>, <<"b">>}}
        \cup {<<CorpusChapter("1", Repeat(<<"a", "b">>, n)), CorpusChapter("2", <<t>>)>> :
                n \in (DisplayCap - 1)..MaxRun, t \in {<<"a", "b">>, <<"b">>}}

SearchQueries == {<<"a", "b">>, <<"A", "B">>, <<"a", "a">>, <<"b">>}

SearchInit ==
    /\ ChIdle
    /\ ReaderIdle
    /\ RenderIdle
    /\ PageIdle
    /\ UtilIdle
    /\ srChapters \in SearchCorpora
    /\ srQuery \in SearchQueries
    /\ srResults = [display |-> "none", banner |-> "none", count |-> 0, items |-> <<>>]
    /\ srPc = "typed"

SearchNext == PerformSearch /\ UNCHANGED <<chVars, allReaderVars, renderVars, pageVars, utilVars>>

SpecSearch == SearchInit /\ [][SearchNext]_vars

(***************************************************************************)
(* Specification of renderMessage with the styling of quoted speech        *)
(* enabled, without a regex processor, on texts of words, double quotes,   *)
(* newlines and the two ends of an embedded document.                      *)
(***************************************************************************)
DialogueTexts == SeqsUpTo({"T", QUOTE, NL, DOCOPEN, DOCCLOSE}, MaxDialogue)

DialogueInit ==
    /\ ChIdle
    /\ ReaderIdle
    /\ \E mes \in DialogueTexts :
          /\ rMsg = [mes |-> mes, extra |-> FALSE]
          /\ rOptions = [RenderOptions(NoHook) EXCEPT !.dialogueEnabled = TRUE]
          /\ rText = mes
          /\ rFrames = <<>>
          /\ rCalls = 0
          /\ rHookArg = <<>>
          /\ rPc = "macros"
    /\ LaterIdle

SpecDialogue == DialogueInit /\ [][RenderNext]_vars

(***************************************************************************)
(* Specification of one parseJSONL call on bounded contents.               *)
(***************************************************************************)
DigitString(n, pad) == [type |-> "string", form |-> "digits", num |-> n, pad |-> pad]

JsonlLines ==
    {JsonlLine("blank"), JsonlLine("malformed"), JsonlLine("null"),
     [JsonlLine("object") EXCEPT !.mes = "a"],
     [JsonlLine("object") EXCEPT !.mes = "b", !.send_date = DigitString(17, FALSE),
                                 !.swipes = <<"s">>, !.swipe_id = 0],
     [JsonlLine("object") EXCEPT !.mes = "c", !.swipes = <<"s">>, !.swipe_id = 1]}

JsonlInit ==
    /\ ChIdle
    /\ ReaderIdle
    /\ RenderIdle
    /\ PageIdle
    /\ SearchIdle
    /\ DateIdle
    /\ ExportIdle
    /\ MoreIdle
    /\ jlContent \in SeqsUpTo(JsonlLines, MaxLines)
    /\ jlResult = [threw |-> FALSE, error |-> "", messages |-> <<>>]
    /\ jlPc = "call"

JsonlNext ==
    ParseJSONL /\ UNCHANGED <<chVars, allReaderVars, renderVars, pageVars, searchVars,
                              dateVars, exportVars, moreVars>>

SpecJsonl == JsonlInit /\ [][JsonlNext]_vars

(***************************************************************************)
(* Specification of one export of a bounded page.                          *)
(***************************************************************************)
ExportItems ==
    {TextItem, Img(EmbeddedUri, "x"), Img("a.png", "x"), Img("a.png", "y"), Img("b.png", "x")}

ExportInit ==
    /\ ChIdle
    /\ ReaderIdle
    /\ RenderIdle
    /\ PageIdle
    /\ SearchIdle
    /\ JsonlIdle
    /\ DateIdle
    /\ MoreIdle
    /\ exRendered \in SeqsUpTo(ExportItems, MaxItems)
    /\ exMode \in {"base64", "url"}
    /\ exHtml = <<>>
    /\ exMatches = <<>>
    /\ exAt = 1
    /\ exFetched = <<>>
    /\ exDoc = NoDocument
    /\ exPc = "call"

ExportNext ==
    \/ (ExportToHtml /\ UNCHANGED <<chVars, allReaderVars, renderVars, pageVars, searchVars,
                                    jsonlVars, dateVars, moreVars>>)
    \/ (EmbedImage /\ UNCHANGED <<chVars, allReaderVars, renderVars, pageVars, searchVars,
                                  jsonlVars, dateVars, moreVars>>)
    \/ (ExportReturn /\ UNCHANGED <<chVars, allReaderVars, renderVars, pageVars, searchVars,
                                    jsonlVars, dateVars, moreVars>>)

SpecExport == ExportInit /\ [][ExportNext]_vars

(***************************************************************************)
(* Specification of one normalizeSendDate call.  Epoch values are counted  *)
(* in units of 10^8: small ones, and the ones around 1e12.                 *)
(***************************************************************************)
EpochValues ==
    (0..MaxEpoch) \cup ((SecondsLimit - MaxEpoch)..(SecondsLimit + MaxEpoch))

Typed(type) == [type |-> type, form |-> "none", num |-> 0, pad |-> FALSE]

SendDates ==
    {Num(n) : n \in EpochValues}
        \cup {DigitString(n, pad) : n \in EpochValues, pad \in BOOLEAN}
        \cup {[type |-> "string", form |-> f, num |-> n, pad |-> FALSE] :
                 f \in {"date", "stamp"}, n \in {0, MaxEpoch}}
        \cup {[type |-> "string", form |-> f, num |-> 0, pad |-> FALSE] :
                 f \in {"empty", "other"}}
        \cup {Typed(t) : t \in {"undefined", "null", "boolean", "object"}}

SendDateInit ==
    /\ ChIdle
    /\ ReaderIdle
    /\ RenderIdle
    /\ PageIdle
    /\ SearchIdle
    /\ JsonlIdle
    /\ ExportIdle
    /\ MoreIdle
    /\ ndValue \in SendDates
    /\ ndDate = 0
    /\ ndPc = "call"

SendDateNext ==
    NormalizeSendDate /\ UNCHANGED <<chVars, allReaderVars, renderVars, pageVars, searchVars,
                                     jsonlVars, exportVars, moreVars>>

SpecSendDate == SendDateInit /\ [][SendDateNext]_vars

(***************************************************************************)
(* Specification of one chapterize call, in time or both mode, on messages *)
(* as the parser makes them from send_date values: missing ones, texts     *)
(* that no format accepts, numbers and date texts.  A message keeps its    *)
(* send_date beside the _parsedDate made from it.                          *)
(***************************************************************************)
StampedMsg(i, sd) ==
    [_index |-> i, t |-> normalizeSendDate(sd), mes |-> "text", send_date |-> sd]

StampValues ==
    {Typed("undefined"), [type |-> "string", form |-> "other", num |-> 0, pad |-> FALSE]}
        \cup {Num(h * HourMs) : h \in 1..MaxHour}
        \cup {[type |-> "string", form |-> "date", num |-> h * HourMs, pad |-> FALSE] :
                 h \in 1..MaxHour}

StampedInputs ==
    {[i \in 1..Len(sds) |-> StampedMsg(i - 1, sds[i])] : sds \in SeqsUpTo(StampValues, MaxStamped)}

StampedInit ==
    /\ chIn \in StampedInputs
    /\ chOpts \in [mode : {"time", "both"}, messagesPerChapter : 1..MaxPerChapter,
                   timeGapHours : 1..MaxGapHours]
    /\ chOut = <<>>
    /\ chPc = "ready"
    /\ ReaderIdle
    /\ RenderIdle
    /\ LaterIdle

SpecStamped == StampedInit /\ [][CallChapterize]_vars

(***************************************************************************)
(* Specification of the line scan of renderMarkdown, one pass of its loop  *)
(* at a time, on bounded texts of paragraphs, headings, list items, block  *)
(* tags and blank lines.                                                   *)
(***************************************************************************)
ScanLineShapes ==
    {<<>>, <<"T">>, <<BLANK, "T">>, <<HEADING>>, <<ULMARK, "T">>, <<OLMARK, "T">>,
     <<DETAILSOPEN>>, <<DETAILSCLOSE>>, <<DETAILSCLOSE, DETAILSCLOSE>>,
     <<DETAILSOPEN, "T", DETAILSCLOSE>>}

ScanInit ==
    /\ ChIdle
    /\ ReaderIdle
    /\ RenderIdle
    /\ PageIdle
    /\ SearchIdle
    /\ JsonlIdle
    /\ DateIdle
    /\ ExportIdle
    /\ ModeIdle
    /\ PosIdle
    /\ BmIdle
    /\ lsLines \in SeqsUpTo(ScanLineShapes, MaxScanLines)
    /\ lsAt = 1
    /\ lsScan = ScanStart
    /\ lsPc = "scan"

\* for (let i = 0; i < lines.length; i++)
ScanNextLine ==
    /\ lsPc = "scan"
    /\ lsAt <= Len(lsLines)
    /\ lsScan' = ScanLine(lsScan, lsLines[lsAt])
    /\ lsAt' = lsAt + 1
    /\ UNCHANGED <<lsLines, lsPc>>

\* after the loop: Close open list
ScanEnd ==
    /\ lsPc = "scan"
    /\ lsAt > Len(lsLines)
    /\ lsScan' = [lsScan EXCEPT !.result = CloseOpenList(lsScan)]
    /\ lsPc' = "done"
    /\ UNCHANGED <<lsLines, lsAt>>

ScanNext ==
    \/ (ScanNextLine /\ UNCHANGED <<chVars, allReaderVars, renderVars, pageVars, searchVars,
                                    jsonlVars, dateVars, exportVars, modeVars, posVars,
                                    bmVars>>)
    \/ (ScanEnd /\ UNCHANGED <<chVars, allReaderVars, renderVars, pageVars, searchVars,
                               jsonlVars, dateVars, exportVars, modeVars, posVars, bmVars>>)

SpecScan == ScanInit /\ [][ScanNext]_vars

(***************************************************************************)
(* Specification of renderMessage on texts that hold one embedded document *)
(* with choices tags, text and newlines inside it, between optional text   *)
(* and choices blocks of the message itself, without a regex processor.    *)
(***************************************************************************)
ChoiceDocInner == SeqsUpTo({"T", NL, CHOICESOPEN, CHOICESCLOSE}, MaxDoc)

ChoiceDocEnds ==
    {<<>>, <<"T", NL>>, <<CHOICESOPEN>>, <<CHOICESCLOSE>>, <<CHOICESOPEN, "T", CHOICESCLOSE>>}

ChoiceDocTexts ==
    {pre \o <<DOCOPEN>> \o inner \o <<DOCCLOSE>> \o post :
        pre \in ChoiceDocEnds, inner \in ChoiceDocInner, post \in ChoiceDocEnds}

ChoiceDocInit ==
    /\ ChIdle
    /\ ReaderIdle
    /\ \E mes \in ChoiceDocTexts : RenderEntry(mes, NoHook)
    /\ LaterIdle

SpecChoiceDoc == ChoiceDocInit /\ [][RenderNext]_vars

(***************************************************************************)
(* Specification of renderMessage on texts of details blocks, "previous    *)
(* info" blocks and text, without a regex processor.                       *)
(***************************************************************************)
UnwrapTexts == SeqsUpTo({"T", PREVOPEN, DETAILSOPEN, DETAILSCLOSE}, MaxUnwrap)

UnwrapInit ==
    /\ ChIdle
    /\ ReaderIdle
    /\ \E mes \in UnwrapTexts : RenderEntry(mes, NoHook)
    /\ LaterIdle

SpecUnwrap == UnwrapInit /\ [][RenderNext]_vars

(***************************************************************************)
(* Specification of the reader opened and closed again and again, with     *)
(* closeReader called also while the reader is closing, on a chat every    *)
(* record of which renders.                                                *)
(***************************************************************************)
ReopenInit ==
    /\ ChIdle
    /\ RenderIdle
    /\ LaterIdle
    /\ ReaderInit
    /\ chat \in {c \in HostChats({}) : Len(c) > 0}
    /\ settings = [chapterMode |-> "count", messagesPerChapter |-> 1, timeGapHours |-> 1]

ReopenNext ==
    \/ (openReader /\ UNCHANGED <<chVars, renderVars, laterVars>>)
    \/ (FrameCallback /\ UNCHANGED <<chVars, renderVars, laterVars>>)
    \/ (closeReader /\ UNCHANGED <<chVars, renderVars, laterVars>>)
    \/ (closeReaderWhileClosing /\ UNCHANGED <<chVars, renderVars, laterVars>>)
    \/ (TeardownTimer /\ UNCHANGED <<chVars, renderVars, laterVars>>)

SpecReopen == ReopenInit /\ [][ReopenNext]_vars

(***************************************************************************)
(* Specification of the reading mode of one open reader: the timer of      *)
(* loadContent, the layout calculations, the page keys and the two mode    *)
(* inputs, in any order.                                                   *)
(***************************************************************************)
ModeInit ==
    /\ ChIdle
    /\ RenderIdle
    /\ SearchIdle
    /\ JsonlIdle
    /\ DateIdle
    /\ ExportIdle
    /\ ScanIdle
    /\ PosIdle
    /\ BmIdle
    /\ ReaderInit
    /\ chat = <<[kind |-> "text", send_date |-> 0]>>
    /\ settings = [chapterMode |-> "count", messagesPerChapter |-> 1, timeGapHours |-> 1]
    /\ readingMode \in {"scroll", "page"}
    /\ pageMode = FALSE
    /\ currentPage = 0
    /\ totalPages = 0
    /\ pending = {}
    /\ navSets = 0
    /\ navHeld = FALSE

modeOthers == <<searchVars, jsonlVars, dateVars, exportVars, scanVars, posVars, bmVars>>

ModeNext ==
    \/ (openReader /\ UNCHANGED <<chVars, renderVars, modeOthers, pageVars, modeVars>>)
    \/ (PageLoadContent /\ UNCHANGED <<chVars, renderVars, modeOthers, modeVars>>)
    \/ (ModeTimer /\ UNCHANGED <<chVars, renderVars, modeOthers, allReaderVars>>)
    \/ (DoCalc /\ UNCHANGED <<chVars, renderVars, modeOthers, allReaderVars, modeVars>>)
    \/ (PageKey /\ UNCHANGED <<chVars, renderVars, modeOthers, allReaderVars, modeVars>>)
    \/ (ModeInput /\ UNCHANGED <<chVars, renderVars, modeOthers, allReaderVars>>)

SpecMode == ModeInit /\ [][ModeNext]_vars

(***************************************************************************)
(* Specification of saveReadingPosition calls on a store that is empty or  *)
(* nearly full, with entries in rising or falling order of their           *)
(* timestamps and, in some stores, an entry that has no timestamp.         *)
(***************************************************************************)
StoredPositions ==
    {[i \in 1..n |-> [chatId |-> i,
                      timestamp |-> IF i = bare THEN Undefined
                                    ELSE IF rising THEN i ELSE n + 1 - i]] :
        n \in {0, MAX_READING_POSITIONS - 1, MAX_READING_POSITIONS},
        bare \in {0, 1, 2, MAX_READING_POSITIONS},
        rising \in BOOLEAN}

PositionsInit ==
    /\ ChIdle
    /\ ReaderIdle
    /\ RenderIdle
    /\ PageIdle
    /\ SearchIdle
    /\ JsonlIdle
    /\ DateIdle
    /\ ExportIdle
    /\ ScanIdle
    /\ ModeIdle
    /\ BmIdle
    /\ rpStore \in StoredPositions
    /\ rpClock = ClockStart
    /\ rpLast = NoCall

PositionsNext ==
    SaveReadingPosition
    /\ UNCHANGED <<chVars, allReaderVars, renderVars, pageVars, searchVars, jsonlVars,
                   dateVars, exportVars, scanVars, modeVars, bmVars>>

SpecPositions == PositionsInit /\ [][PositionsNext]_vars

(***************************************************************************)
(* Specification of addBookmark and removeBookmark calls on the store of   *)
(* two chats, from the empty store; the clock ticks at every call.         *)
(***************************************************************************)
MarksInit ==
    /\ ChIdle
    /\ ReaderIdle
    /\ RenderIdle
    /\ PageIdle
    /\ SearchIdle
    /\ JsonlIdle
    /\ DateIdle
    /\ ExportIdle
    /\ ScanIdle
    /\ ModeIdle
    /\ PosIdle
    /\ bmStore = [c \in MarkChats \ {0} |-> <<>>]
    /\ bmClock = 0
    /\ bmLast = <<>>

MarksNext ==
    \/ (StoreAddBookmark
        /\ UNCHANGED <<chVars, allReaderVars, renderVars, pageVars, searchVars, jsonlVars,
                       dateVars, exportVars, scanVars, modeVars, posVars>>)
    \/ (StoreRemoveBookmark
        /\ UNCHANGED <<chVars, allReaderVars, renderVars, pageVars, searchVars, jsonlVars,
                       dateVars, exportVars, scanVars, modeVars, posVars>>)

SpecMarks == MarksInit /\ [][MarksNext]_vars

(***************************************************************************)
(* Properties of chapterize.                                               *)
(***************************************************************************)
RECURSIVE ChMessages(_)
ChMessages(chs) ==
    IF Len(chs) = 0 THEN <<>>
    ELSE ChMessages(SubSeq(chs, 1, Len(chs) - 1)) \o chs[Len(chs)].messages

\* the positions p such that a chapter ends with the p-th message and another follows
Boundaries(chs) ==
    {Len(ChMessages(SubSeq(chs, 1, c))) : c \in 1..(Len(chs) - 1)}

GapExceeds(messages, p, gapHours) ==
    messages[p + 1].t - messages[p].t > gapHours * HourMs

CeilDiv(n, k) == (n + k - 1) \div k

Max(S) == CHOOSE x \in S : \A y \in S : y <= x

\* the number of messages of the chapter that holds the p-th message, up to p
RunLength(B, p) == p - Max({b \in B : b < p} \cup {0})

\* C1: for every mode and every non-empty message list, the messages of the
\* returned chapters, concatenated in chapter order, are exactly the input list.
C1_Coverage ==
    (chPc = "done" /\ Len(chIn) > 0) => ChMessages(chOut) = chIn

C1_Witness ==
    /\ chPc = "done"
    /\ chOpts.mode = "both"
    /\ Len(chIn) = MaxMsgs
    /\ Len(chOut) >= 3

\* C2: in count mode with messagesPerChapter = k and n messages there are exactly
\* ceil(n/k) chapters, each of k messages except the last, which has 1..k.
C2_CountExact ==
    (chPc = "done" /\ chOpts.mode = "count") =>
        LET k == chOpts.messagesPerChapter
            n == Len(chIn)
        IN /\ Len(chOut) = CeilDiv(n, k)
           /\ \A c \in 1..Len(chOut) :
                IF c < Len(chOut)
                THEN Len(chOut[c].messages) = k
                ELSE Len(chOut[c].messages) \in 1..k

C2_Witness ==
    /\ chPc = "done"
    /\ chOpts.mode = "count"
    /\ chOpts.messagesPerChapter = 3
    /\ Len(chIn) = 4
    /\ Len(chOut) = 2
    /\ Len(chOut[2].messages) = 1

Groups(chs) == [ci \in 1..Len(chs) |-> chs[ci].messages]

SeqElems(s) == {s[j] : j \in 1..Len(s)}

\* C5: while the reader is open, after any re-renders and chapter-setting
\* changes, the messages held by state.chapters are exactly the messages parsed
\* at open, in order, each with the _index and the content of its host record.
C5_MessagesKept ==
    isOpen =>
        /\ ChMessages(chapters) = parsed
        /\ \A m \in SeqElems(ChMessages(chapters)) :
              /\ m._index + 1 \in 1..Len(chat)
              /\ chat[m._index + 1].kind = m.mes
              /\ chat[m._index + 1].send_date = m.t

C5_Witness ==
    /\ isOpen
    /\ content.by = "reRender"
    /\ Len(chapters) >= 2
    /\ Len(parsed) >= 2
    /\ parsed[1]._index = 1

\* C6: a change of chapterMode, messagesPerChapter or timeGapHours in the
\* settings panel rebuilds the chapter list, so state.chapters always groups
\* the messages as chapterize does under the current settings.
C6_ChaptersCurrent ==
    isOpen => Groups(chapters) = Groups(chapterize(parsed, ChapterOptions(settings)))

\* C7: after any re-chapterization a bookmark is listed under the chapter that
\* holds its message, and a custom chapter name is shown on the chapter that
\* holds the first message of the chapter it was given to.
C7_ReferencesFollowMessages ==
    sidebar.built =>
        /\ \A ci \in 1..Len(sidebar.bm) : \A j \in 1..Len(sidebar.bm[ci]) :
              sidebar.bm[ci][j].msgIndex \in SeqElems(sidebar.chapters[ci])
        /\ \A ci \in 1..Len(sidebar.titles) :
              (ci - 1 \in ChapterIdx /\ chapterNames[ci - 1] # NoName
                    /\ sidebar.titles[ci] = chapterNames[ci - 1])
                 => nameAnchor[ci - 1] \in SeqElems(sidebar.chapters[ci])

\* C8: when the pipeline throws for one message, every other message of every
\* chapter is still rendered into the content area.
C8_FaultIsolated ==
    content.by \in {"loadContent", "reRender", "partial", "error"} =>
        \A m \in SeqElems(ChMessages(chapters)) :
            ~renderMessageThrows(m) => m._index \in Rendered(content)

(***************************************************************************)
(* Properties of renderMessage.                                            *)
(***************************************************************************)
\* the text with the macros substituted, as step 1 leaves it
AfterMacros(mes) == substituteCharMacro(substituteUserMacro(mes, "User"), "Char")

\* the steps after the regex processor, applied to text
RenderedFrom(text) ==
    LET d == convertHtmlDocsToIframes(removeCursorMarkers(unwrapPreviousInfoBlocks(text)))
    IN restoreIframePlaceholders(renderMarkdown(processChoices(d.text)),
                                 d.iframePlaceholders)

Contains(text, part) ==
    \E i \in 0..(Len(text) - Len(part)) : SubSeq(text, i + 1, i + Len(part)) = part

\* C9: renderMessage calls the regex processor exactly once, with the text as
\* macro substitution left it and before any later step; when the processor
\* throws, renderMessage still returns, and returns the rendering of that text.
C9_HookOnceAndTolerated ==
    rOptions.regexProcessor.present =>
        /\ rCalls = (IF rPc \in {"macros", "regex"} THEN 0 ELSE 1)
        /\ (rCalls = 1 => rHookArg = AfterMacros(rMsg.mes))
        /\ rPc # "threw"
        /\ (rPc = "done" /\ regexProcessor(rHookArg, rOptions.regexProcessor).threw
                => rText = RenderedFrom(rHookArg))

\* C10: every code fence of the text that reaches step 4 comes out as a code
\* block that holds the fenced text, escaped and nothing else: no heading, no
\* inline frame.
C10_FenceIsolation ==
    (rPc = "done" /\ ~rOptions.regexProcessor.present) =>
        LET base == removeCursorMarkers(unwrapPreviousInfoBlocks(AfterMacros(rMsg.mes)))
            fenced == FenceLoop(base, 1, <<>>, <<>>).codeBlocks
        IN \A k \in 1..Len(fenced) : Contains(rText, fenced[k])

\* the embedded document of a message text: from the document opening to the
\* first document end after it
DocumentOf(mes) ==
    LET i == IndexFrom(mes, DOCOPEN, 1)
    IN SubSeq(mes, i, IndexFrom(mes, DOCCLOSE, i + 1))

\* what the first inline frame of html carries: the value of its srcdoc with the
\* attribute escaping undone and the injected style override taken out
FrameContent(html) ==
    LET i == IndexFrom(html, "<iframe srcdoc=", 1)
        j == IndexFrom(html, "></iframe>", i + 1)
    IN SelectSeq(ReplaceTok(SubSeq(html, i + 1, j - 1), "&amp;", "&"),
                 LAMBDA t : t # "<style>html,body{overflow:hidden!important}</style>")

HasFrame(html) ==
    LET i == IndexFrom(html, "<iframe srcdoc=", 1)
    IN i > 0 /\ IndexFrom(html, "></iframe>", i + 1) > 0

\* C11: for a text that holds one embedded document outside any code fence, the
\* output of renderMessage holds an inline frame, and the frame carries the
\* document as the message has it, token for token.
C11_DocumentVerbatim ==
    (rPc = "done" /\ Count(rMsg.mes, DOCOPEN) = 1 /\ Count(rMsg.mes, DOCCLOSE) = 1
        /\ IndexFrom(rMsg.mes, FENCE, 1) \notin 1..IndexFrom(rMsg.mes, DOCOPEN, 1)) =>
            /\ HasFrame(rText)
            /\ FrameContent(rText) = DocumentOf(rMsg.mes)

\* the text that renderMessage hands to renderMarkdown for a message text
MarkdownInput(mes) ==
    processChoices(convertHtmlDocsToIframes(
        removeCursorMarkers(unwrapPreviousInfoBlocks(AfterMacros(mes)))).text)

\* no backtick and no fence stands before position i of text
NoCodeBefore(text, i) == \A j \in 1..(i - 1) : text[j] \notin {TICK, FENCE}

\* C12: the output of renderMarkdown holds every style, script, svg and table
\* block of its input that no code precedes, from the opening tag to the first
\* closing tag of its kind, token for token; and it holds no placeholder token.
C12_ProtectedIntact ==
    (rPc = "restore" /\ ~rOptions.regexProcessor.present) =>
        LET in == MarkdownInput(rMsg.mes)
        IN /\ \A k \in BlockKinds : \A i \in 1..Len(in) :
                (in[i] = OpenTag(k) /\ NoCodeBefore(in, i)
                    /\ IndexFrom(in, CloseTag(k), i + 1) > 0)
                => Contains(rText, SubSeq(in, i, IndexFrom(in, CloseTag(k), i + 1)))
           /\ \A i \in 1..Len(rText) : ~IsCodeToken(rText[i])

(***************************************************************************)
(* Properties of the reader's callbacks.                                   *)
(***************************************************************************)
\* C13: a step that runs a callback whose reader has been torn down (the
\* callback leaves the pending set and its content element is detached) keeps
\* chapters, pageMode, currentPage and totalPages as they are.
C13_StaleCallbackInert ==
    [][(\E c \in pending : ~c.attached /\ c \notin pending')
            => UNCHANGED <<chapters, pageMode, currentPage, totalPages>>]_vars

(***************************************************************************)
(* Properties of the sidebar search.                                       *)
(***************************************************************************)
\* the start positions (0-based) of the case-insensitive matches of query in text
MatchStarts(text, query) ==
    {i \in 0..(Len(text) - Len(query)) :
        toLowerCase(SubSeq(text, i + 1, i + Len(query))) = toLowerCase(query)}

\* the texts of all messages of all chapters, in order
RECURSIVE CorpusTexts(_)
CorpusTexts(chs) == IF chs = <<>> THEN <<>> ELSE Head(chs).messages \o CorpusTexts(Tail(chs))

\* the number of match start positions, summed over the texts
SumOver(texts, query) ==
    Cardinality(UNION {{<<i, p>> : p \in MatchStarts(texts[i], query)} : i \in 1..Len(texts)})

\* a context as the user reads it: without the highlight tags
Unmarked(context) == SelectSeq(context, LAMBDA ch : ch \notin {"<mark>", "</mark>"})

\* C14: the count the search reports is the number of match start positions of
\* the query, summed over all messages, and the context of every hit reads the
\* query at some position.
C14_CountsEveryMatch ==
    srPc = "done" =>
        /\ srResults.count = SumOver(CorpusTexts(srChapters), srQuery)
        /\ \A k \in 1..Len(srResults.items) :
              MatchStarts(Unmarked(srResults.items[k].context), srQuery) # {}

\* C15: the search shows at most 50 entries, the first hits in order, and for a
\* query it scans for (two characters or more) the count it reports is the
\* number of messages that hold the query, also when that is more than 50.
C15_CapAndCount ==
    srPc = "done" =>
        LET texts == CorpusTexts(srChapters)
            hits == {i \in 1..Len(texts) : MatchStarts(texts[i], srQuery) # {}}
        IN /\ Len(srResults.items) <= DisplayCap
           /\ Len(srQuery) >= 2 =>
                /\ srResults.count = Cardinality(hits)
                /\ Len(srResults.items) = Min(DisplayCap, Cardinality(hits))
                /\ (hits # {}) = (srResults.banner = "count")

C15_Witness ==
    /\ srPc = "done"
    /\ srResults.count = MaxRun + 1
    /\ Len(srResults.items) = DisplayCap


(***************************************************************************)
(* Properties of styleDialogue                                             *)
(***************************************************************************)
\* the tokens that start a tag with attributes; the tag runs to the first >
\* outside a quoted attribute value
StartsAttributes(tok) ==
    tok \in {"<p class=", "<h1 class=", "<pre class=", "<code class=", "<iframe class="}

\* the places of html that lie inside a tag with attributes, the place of its
\* closing > included; the span tokens of the styling do not count as tags
RECURSIVE InsideTags(_, _, _, _)
InsideTags(html, i, inTag, inQuote) ==
    IF i > Len(html) THEN {}
    ELSE LET tok == html[i]
         IN IF tok \in {SPANOPEN, SPANCLOSE}
            THEN (IF inTag THEN {i} ELSE {}) \cup InsideTags(html, i + 1, inTag, inQuote)
            ELSE IF inTag
            THEN {i} \cup InsideTags(html, i + 1, ~(tok = ">" /\ ~inQuote),
                                     IF tok = QUOTE THEN ~inQuote ELSE inQuote)
            ELSE IF StartsAttributes(tok)
            THEN {i} \cup InsideTags(html, i + 1, TRUE, FALSE)
            ELSE InsideTags(html, i + 1, FALSE, FALSE)

\* the double quotes of the text outside the tags
TextQuotes(html) ==
    {i \in 1..Len(html) : html[i] = QUOTE} \ InsideTags(html, 1, FALSE, FALSE)

Unspanned(html) == SelectSeq(html, LAMBDA k : k \notin {SPANOPEN, SPANCLOSE})

\* a span opens before a quote of the text and closes after the next one, and
\* no span opens inside another
SpansWrapQuotedText(html) ==
    LET opens == {i \in 1..Len(html) : html[i] = SPANOPEN}
        closes == {i \in 1..Len(html) : html[i] = SPANCLOSE}
        quotes == TextQuotes(html)
    IN /\ \A i \in opens :
             /\ i + 1 \in quotes
             /\ \E j \in closes :
                   /\ j > i + 2
                   /\ j - 1 \in quotes
                   /\ \A k \in (i + 2)..(j - 2) : k \notin quotes \cup opens \cup closes
       /\ \A j \in closes : \E i \in opens : i < j /\ \A k \in (i + 1)..(j - 1) : k \notin closes

\* every run of text between two tags holds an even number of quotes, and no
\* quote next to another
RECURSIVE QuotesPaired(_, _, _)
QuotesPaired(html, i, open) ==
    IF i > Len(html) THEN ~open
    ELSE IF i \in TextQuotes(html)
    THEN ~(open /\ html[i - 1] = QUOTE) /\ QuotesPaired(html, i + 1, ~open)
    ELSE IF OpensTag(html[i]) \/ i \in InsideTags(html, 1, FALSE, FALSE)
    THEN ~open /\ QuotesPaired(html, i + 1, FALSE)
    ELSE QuotesPaired(html, i + 1, open)

\* every quote of the text lies in a span
AllQuotesSpanned(html) ==
    \A q \in TextQuotes(html) :
        \/ (q > 1 /\ html[q - 1] = SPANOPEN)
        \/ (q < Len(html) /\ html[q + 1] = SPANCLOSE)

StyledRight(before, after) ==
    /\ Unspanned(after) = before
    /\ \A i \in InsideTags(after, 1, FALSE, FALSE) : after[i] \notin {SPANOPEN, SPANCLOSE}
    /\ SpansWrapQuotedText(after)
    /\ (QuotesPaired(before, 1, FALSE) => AllQuotesSpanned(after))

\* C16: with dialogue styling enabled, the styling step of renderMessage leaves
\* every tag of its input as it was (no span is put inside a tag), and wraps
\* every quoted span of the text in exactly one dialogue span, never nested.
C16_DialogueOutsideTags ==
    [][(rPc = "dialogue" /\ rPc' = "done" /\ rOptions.dialogueEnabled)
          => StyledRight(WithAttributes(rText), rText')]_vars


(***************************************************************************)
(* Properties of parseJSONL                                                *)
(***************************************************************************)
NonBlank(jsonl) == SelectSeq(jsonl, LAMBDA line : line.kind # "blank")

\* the places, among the lines that are not blank, and counted from 0, of the
\* well-formed message records: the objects after the first line
RecordPlaces(jsonl) ==
    {i \in 1..(Len(NonBlank(jsonl)) - 1) : NonBlank(jsonl)[i + 1].kind = "object"}

\* C17: for a content with a line that is not blank and just one malformed
\* line, wherever it is, parseJSONL returns normally, with one message for
\* every well-formed message record, in the order of the lines, each with the
\* _index of its own line.
C17_OneBadLineSkipped ==
    (jlPc = "done"
        /\ Len(NonBlank(jlContent)) >= 1
        /\ Cardinality({i \in 1..Len(jlContent) : jlContent[i].kind = "malformed"}) = 1)
    => /\ ~jlResult.threw
       /\ {jlResult.messages[k]._index : k \in 1..Len(jlResult.messages)}
             = RecordPlaces(jlContent)
       /\ Len(jlResult.messages) = Cardinality(RecordPlaces(jlContent))
       /\ \A k \in 1..(Len(jlResult.messages) - 1) :
             jlResult.messages[k]._index < jlResult.messages[k + 1]._index


(***************************************************************************)
(* Properties of openReader on a chat without messages                     *)
(***************************************************************************)
\* C18: once openReader has run on an empty chat, or on a chat that gives no
\* message, and the deferred loadContent is over, the overlay is shown and
\* its content area holds the error message.
C18_EmptyChatShowsError ==
    (parseChatArray(chat) = <<>>
        /\ (toast = "warning" \/ (isOpen /\ frames = 0)))
    => (overlay = "shown" /\ content.by = "error")


(***************************************************************************)
(* Properties of the export                                                *)
(***************************************************************************)
\* the number of the image at place p among the images of the page
ImageNumber(html, p) == Cardinality({i \in 1..p : html[i].tag = "img"})

\* what the export is to hold at place p, given the outcome of each fetch
Embedded(html, p, fetched) ==
    IF html[p].tag = "img" /\ fetched[ImageNumber(html, p)] = "ok"
    THEN [html[p] EXCEPT !.src = DataUri(html[p].src)]
    ELSE html[p]

\* C19: an export in base64 mode fetches the images one after another, in
\* their order, and ends with a document in which an image whose fetch
\* failed has its original URL and every image whose fetch succeeded has
\* its data URI.
C19_FailedImageKeepsUrl ==
    (exPc = "done" /\ exMode = "base64")
    => /\ exDoc.complete
       /\ Len(exFetched) = Len(ImageMatches(exRendered))
       /\ Len(exDoc.content) = Len(exRendered)
       /\ \A p \in 1..Len(exRendered) :
             exDoc.content[p] = Embedded(exRendered, p, exFetched)


(***************************************************************************)
(* Properties of normalizeSendDate                                         *)
(***************************************************************************)
\* the input is a numeric epoch value: a number, or a string of digits
NumericEpoch(v) == v.type = "number" \/ (v.type = "string" /\ v.form = "digits")

\* the input has none of the four accepted formats
NoAcceptedFormat(v) ==
    ~NumericEpoch(v) /\ ~(v.type = "string" /\ v.form \in {"date", "stamp"})

\* C20: a numeric epoch value below 1e12 is taken as seconds and one of 1e12
\* or more as milliseconds, as a number and as a numeric string alike; an
\* input of none of the four accepted formats gives the epoch.
C20_SecondsBelowLimit ==
    (ndPc = "done")
    => /\ NumericEpoch(ndValue)
          => ndDate = (IF ndValue.num < SecondsLimit THEN ndValue.num * 1000
                       ELSE ndValue.num)
       /\ NoAcceptedFormat(ndValue) => ndDate = 0


(***************************************************************************)
(* Properties of chapterize on missing timestamps                          *)
(***************************************************************************)
\* the send_date of the message is missing or no format accepts it
StampMissing(msg) ==
    msg.send_date.type \notin {"number", "string"}
        \/ (msg.send_date.type = "string" /\ msg.send_date.form \in {"empty", "other"})

\* C21: in time and both mode a message whose timestamp is missing or not
\* parseable has the time of the epoch; its difference to the message before
\* it is zero or less, so a boundary before it comes from the count alone;
\* and the next message with a real timestamp starts a boundary when its
\* distance from the epoch exceeds the threshold.
C21_MissingStampIsEpoch ==
    (chPc = "done" /\ chOpts.mode \in {"time", "both"}) =>
        /\ \A i \in 1..Len(chIn) : StampMissing(chIn[i]) => chIn[i].t = 0
        /\ \A p \in 1..(Len(chIn) - 1) :
              /\ StampMissing(chIn[p + 1]) =>
                    /\ chIn[p + 1].t - chIn[p].t <= 0
                    /\ p \in Boundaries(chOut) =>
                          /\ chOpts.mode = "both"
                          /\ RunLength(Boundaries(chOut), p) = chOpts.messagesPerChapter
              /\ (StampMissing(chIn[p]) /\ ~StampMissing(chIn[p + 1])
                     /\ chIn[p + 1].t > chOpts.timeGapHours * HourMs)
                    => p \in Boundaries(chOut)

C21_Witness ==
    /\ chPc = "done"
    /\ chOpts.mode = "time"
    /\ Len(chIn) = 3
    /\ ~StampMissing(chIn[1]) /\ chIn[1].t > chOpts.timeGapHours * HourMs
    /\ StampMissing(chIn[2])
    /\ ~StampMissing(chIn[3])
    /\ Boundaries(chOut) = {2}

(***************************************************************************)
(* Properties of the line scan of renderMarkdown.                          *)
(***************************************************************************)
\* C22: in the line scan the HTML-block depth is never negative, and a line
\* scanned while the depth is above zero is pushed to the result as it is,
\* with no markdown rule applied and nothing else pushed.
C22_DepthClampedVerbatim ==
    /\ [](lsScan.htmlBlockDepth >= 0)
    /\ [][(lsPc = "scan" /\ lsAt <= Len(lsLines) /\ lsScan.htmlBlockDepth > 0)
            => lsScan'.result = Append(lsScan.result, lsLines[lsAt])]_vars

\* a heading line was pushed as it is inside a block, and two closing tags
\* on one line at depth one have left the depth at zero
C22_Witness ==
    /\ lsAt = 4
    /\ lsLines[1] = <<DETAILSOPEN>>
    /\ lsLines[2] = <<HEADING>>
    /\ lsLines[3] = <<DETAILSCLOSE, DETAILSCLOSE>>
    /\ lsScan.result = <<<<DETAILSOPEN>>, <<HEADING>>, <<DETAILSCLOSE, DETAILSCLOSE>>>>
    /\ lsScan.htmlBlockDepth = 0

\* the lines of result read from place i with the container kind open ("" for
\* none): a container opens only when none is open, closes only its own
\* kind, an item lies in a container, any other line outside, none is left open
RECURSIVE WellNested(_, _, _)
WellNested(result, i, open) ==
    IF i > Len(result) THEN open = ""
    ELSE IF result[i] \in {ListOpen("ul"), ListOpen("ol")}
    THEN open = "" /\ WellNested(result, i + 1, IF result[i] = ListOpen("ul") THEN "ul" ELSE "ol")
    ELSE IF result[i] \in {ListClose("ul"), ListClose("ol")}
    THEN open # "" /\ result[i] = ListClose(open) /\ WellNested(result, i + 1, "")
    ELSE IF result[i] # <<>> /\ Head(result[i]) = "<li>"
    THEN open # "" /\ WellNested(result, i + 1, open)
    ELSE open = "" /\ WellNested(result, i + 1, open)

\* the HTML-block depth after the first k lines, from the tags of the lines
RECURSIVE DepthAfter(_)
DepthAfter(k) ==
    IF k = 0 THEN 0
    ELSE LET d == DepthAfter(k - 1)
             t == trim(lsLines[k])
         IN IF d > 0 THEN Max0(d + countBlockOpens(t) - countBlockCloses(t))
            ELSE IF StartsWithOpenTag(t) /\ countBlockOpens(t) > countBlockCloses(t)
            THEN countBlockOpens(t) - countBlockCloses(t)
            ELSE 0

\* the kind of list item the line scanned last was: "" before the first line,
\* for a line that is no item and for a line inside an HTML block
LastKind ==
    IF lsAt = 1 \/ DepthAfter(lsAt - 2) > 0 THEN "" ELSE ListKind(trim(lsLines[lsAt - 1]))

\* C23: a list container is open during the scan exactly when the line scanned
\* last was a list item, and then it is of that item's kind (it was closed at
\* the first line that is not an item of its kind, an HTML tag line included);
\* and in the finished result every item lies inside a container, no other
\* line does, and the opening and closing list tags are balanced.
C23_ListContainers ==
    /\ lsPc = "scan" => /\ lsScan.inList <=> LastKind # ""
                        /\ lsScan.inList => lsScan.listType = LastKind
    /\ lsPc = "done" => WellNested(lsScan.result, 1, "")

(***************************************************************************)
(* Properties of the order of the steps of renderMessage.                  *)
(***************************************************************************)
\* a document opening of text with a document end after it
HoldsDocument(text) ==
    \E i \in 1..Len(text) : text[i] \in {DOCOPEN, "<html>"} /\ IndexFrom(text, DOCCLOSE, i + 1) > 0

WithoutNewlines(text) == SelectSeq(text, LAMBDA tok : tok # NL)

\* C24: processChoices is called on a text in which no embedded document is
\* left (each has given way to its placeholder), and the inline frame of the
\* output carries the document with its choices tags as they were (runs of
\* blank lines, which the cursor-marker step shortens, set aside).
C24_ChoicesAfterDocuments ==
    /\ rPc = "choices" => ~HoldsDocument(rText)
    /\ rPc = "done" =>
          /\ HasFrame(rText)
          /\ WithoutNewlines(FrameContent(rText)) = WithoutNewlines(DocumentOf(rMsg.mes))

\* a choices block of the message itself has become cards while the choices
\* block inside the document stands in the frame as it was
C24_Witness ==
    /\ rPc = "done"
    /\ rMsg.mes = <<CHOICESOPEN, "T", CHOICESCLOSE, DOCOPEN, CHOICESOPEN, "T", CHOICESCLOSE,
                    DOCCLOSE>>
    /\ Count(rText, "<div class=cn-choices-container>") = 1
    /\ Count(rText, CHOICESOPEN) = 1

(***************************************************************************)
(* Properties of unwrapPreviousInfoBlocks.                                 *)
(***************************************************************************)
\* text read from the left with the stack of the blocks that are open: the
\* header of a "previous info" block and the closing tag that matches it are
\* left out, every other token is kept
RECURSIVE OwnTagsRemoved(_, _)
OwnTagsRemoved(text, stack) ==
    IF text = <<>> THEN <<>>
    ELSE LET tok == Head(text)
         IN IF tok \in {PREVOPEN, DETAILSOPEN}
            THEN (IF tok = PREVOPEN THEN <<>> ELSE <<tok>>)
                     \o OwnTagsRemoved(Tail(text), <<tok>> \o stack)
            ELSE IF tok = DETAILSCLOSE /\ stack # <<>>
            THEN (IF Head(stack) = PREVOPEN THEN <<>> ELSE <<tok>>)
                     \o OwnTagsRemoved(Tail(text), Tail(stack))
            ELSE <<tok>> \o OwnTagsRemoved(Tail(text), stack)

\* every closing details tag has its opening tag, and every block is closed
RECURSIVE DetailsBalanced(_, _)
DetailsBalanced(text, depth) ==
    IF text = <<>> THEN depth = 0
    ELSE IF Head(text) \in {PREVOPEN, DETAILSOPEN} THEN DetailsBalanced(Tail(text), depth + 1)
    ELSE IF Head(text) = DETAILSCLOSE THEN depth > 0 /\ DetailsBalanced(Tail(text), depth - 1)
    ELSE DetailsBalanced(Tail(text), depth)

\* C25: on a text whose details blocks are well nested, unwrapping removes
\* of each "previous info" block its own header and its own matching closing
\* details tag and nothing else: every other token stays, and every other
\* details block keeps its own tags.
C25_OnlyOwnTagsRemoved ==
    (rPc = "cursor" /\ DetailsBalanced(rMsg.mes, 0)) => rText = OwnTagsRemoved(rMsg.mes, <<>>)

(***************************************************************************)
(* Properties of opening and closing the reader.                           *)
(***************************************************************************)
\* C26: a reader that openReader has created and no closeReader call has
\* closed (closeReader is the step that sets a teardown timer) is open with
\* its overlay attached after every other step, a teardown timer of an
\* earlier close included; and at most one overlay is in the document.
C26_OpenReaderStaysOpen ==
    /\ [](OverlaysAttached <= 1)
    /\ [][(overlay = "shown" /\ isOpen /\ timers' <= timers)
             => (overlay' = "shown" /\ isOpen')]_vars

(***************************************************************************)
(* Properties of page mode.                                                *)
(***************************************************************************)
\* C27: while the reader is shown with page mode on, the current page is a
\* number from 0 to max(totalPages, 1) - 1, also between enablePageMode and
\* the first layout calculation.
C27_CurrentPageInRange ==
    (isOpen /\ overlay = "shown" /\ pageMode) =>
        /\ currentPage # NaN
        /\ totalPages # NaN
        /\ 0 <= currentPage
        /\ currentPage <= (IF totalPages > 1 THEN totalPages ELSE 1) - 1

\* no timer and no layout calculation is waiting
TimersFired == \A c \in pending : c.kind \notin {"enablePageMode", "doCalc"}

\* C28: in the loaded reader, once the pending timers have fired, page mode is
\* on exactly when the reading mode of the settings is 'page', and then
\* exactly one set of page-navigation listeners is registered.
C28_ModeFollowsSetting ==
    (isOpen /\ overlay = "shown" /\ content.by = "loadContent" /\ TimersFired) =>
        /\ pageMode <=> readingMode = "page"
        /\ pageMode => navSets = 1

(***************************************************************************)
(* Properties of the store of reading positions.                           *)
(***************************************************************************)
ChatIds(store) == {store[i].chatId : i \in 1..Len(store)}

EntryOf(store, chatId) == store[CHOOSE i \in 1..Len(store) : store[i].chatId = chatId]

\* C29: the store never holds more than 100 reading positions; a call with
\* an empty chat id leaves it as it was; after any other call the position
\* just saved is in the store with its new timestamp, every entry that is
\* still there and was not the one saved is as it was, and every entry that
\* went was no newer than any entry that stayed (an entry without a
\* timestamp counting as the oldest).
C29_PositionsCapped ==
    /\ [](Len(rpStore) <= MAX_READING_POSITIONS)
    /\ [][IF rpLast' = 0 THEN rpStore' = rpStore
          ELSE /\ rpLast' \in ChatIds(rpStore')
               /\ EntryOf(rpStore', rpLast').timestamp = rpClock'
               /\ ChatIds(rpStore') \subseteq ChatIds(rpStore) \cup {rpLast'}
               /\ \A c \in ChatIds(rpStore') \ {rpLast'} :
                     EntryOf(rpStore', c) = EntryOf(rpStore, c)
               /\ \A gone \in ChatIds(rpStore) \ ChatIds(rpStore') :
                     \A c \in ChatIds(rpStore') :
                        Stamp(EntryOf(rpStore, gone)) <= Stamp(EntryOf(rpStore', c))]_vars

\* a full store whose second entry had no timestamp: the call for a new chat
\* has put the new position last and that entry is the one that went
C29_Witness ==
    /\ Len(rpStore) = MAX_READING_POSITIONS
    /\ rpLast = FirstNewChat
    /\ rpStore[MAX_READING_POSITIONS].chatId = FirstNewChat
    /\ ChatIds(rpStore) = ((1..MAX_READING_POSITIONS) \ {2}) \cup {FirstNewChat}
    /\ \A i \in 1..Len(rpStore) : rpStore[i].timestamp # Undefined

(***************************************************************************)
(* Properties of the store of bookmarks.                                   *)
(***************************************************************************)
MarkedIn(bms) == {bms[j].msgIndex : j \in 1..Len(bms)}

MarkOf(bms, msgIndex) == bms[CHOOSE j \in 1..Len(bms) : bms[j].msgIndex = msgIndex]

\* C30: the list of every chat is in rising order of msgIndex with no message
\* twice; a call with the empty chat id leaves the store as it was; any other
\* call leaves the lists of the other chats and the other bookmarks of its
\* chat as they were; addBookmark leaves one entry for the message, with the
\* label given and the new timestamp, and no entry more when the message was
\* bookmarked before; removeBookmark leaves no entry for the message.
C30_BookmarksSortedUnique ==
    /\ [](\A c \in DOMAIN bmStore : \A j \in 1..(Len(bmStore[c]) - 1) :
              bmStore[c][j].msgIndex < bmStore[c][j + 1].msgIndex)
    /\ [][LET op == bmLast'[1]
              chatId == bmLast'[2]
              msgIndex == bmLast'[3]
          IN IF chatId = 0 THEN bmStore' = bmStore
             ELSE /\ \A c \in DOMAIN bmStore \ {chatId} : bmStore'[c] = bmStore[c]
                  /\ \A m \in MarkedIn(bmStore[chatId]) \ {msgIndex} :
                        /\ m \in MarkedIn(bmStore'[chatId])
                        /\ MarkOf(bmStore'[chatId], m) = MarkOf(bmStore[chatId], m)
                  /\ IF op = "add"
                     THEN /\ MarkedIn(bmStore'[chatId]) = MarkedIn(bmStore[chatId]) \cup {msgIndex}
                          /\ MarkOf(bmStore'[chatId], msgIndex) =
                                [msgIndex |-> msgIndex, label |-> bmLast'[4],
                                 timestamp |-> bmClock']
                     ELSE MarkedIn(bmStore'[chatId]) = MarkedIn(bmStore[chatId]) \ {msgIndex}]_vars

\* the second chat holds two bookmarks in order, the first of them added
\* last and labelled again after that
C30_Witness ==
    /\ bmClock = 3
    /\ bmLast = <<"add", 2, 0, "y">>
    /\ bmStore[1] = <<>>
    /\ bmStore[2] = <<[msgIndex |-> 0, label |-> "y", timestamp |-> 3],
                      [msgIndex |-> 1, label |-> "x", timestamp |-> 1]>>

====
